---- MODULE Spec2Model ----
(***************************************************************************)
(* netmeta: the peer-state registry (package bgp, Monitor), the            *)
(* auto-remediation engine (package auto, Engine) and its event ledger,    *)
(* the OSPF topology (package ospf, Parser) and the label-stack validator  *)
(* (package mpls, Validator).                                              *)
(*                                                                         *)
(* A validation call is modelled in steps, one for each pass of the loop   *)
(* of ValidatePacket and one for recordCorruption, with two callers.       *)
(*                                                                         *)
(* Every exported method is one action; a method takes its registry lock   *)
(* for its whole body (or, for WithdrawAllPrefixes, touches the registry   *)
(* in two short critical sections with only session-engine calls between), *)
(* so a handler is modelled as one atomic step.  The session engine        *)
(* (GoBGP) is the environment: each of its answers is an input of the      *)
(* action, drawn from a small set.  The tickers are not modelled: a refresh *)
(* or evaluation cycle may run at any time.                                *)
(*                                                                         *)
(* The telemetry Logger is a bounded channel with one consumer.            *)
(*                                                                         *)
(* For the properties of the locks, of concurrent reads and of shutdown    *)
(* the same methods are also modelled statement by statement: goroutines   *)
(* with a program counter and local variables, and every sync.RWMutex with *)
(* its writer and its readers (SpecLocks, SpecReads, FairShutdown).        *)
(*                                                                         *)
(* Time is the wall clock in seconds.  0 is the zero time.Time (IsZero);   *)
(* the process starts at a positive time.                                  *)
(***************************************************************************)
EXTENDS Integers, Sequences, FiniteSets, TLC

VARIABLES
    peers,      \* Monitor.peers: address -> PeerState (a Go map: its DOMAIN is the set of keys)
    now,        \* the value time.Now() returns
    heap,       \* backing arrays of the []RemediationEvent slices: array id -> cells
    events,     \* Engine.events: a slice header [arr, off, len] into heap
    got,        \* the slice the last GetEvents call handed to its caller
    recorded,   \* history: every event ever passed to recordEvent, in order
    flapHist,   \* history: address -> how often it flapped, and when it flapped first
    lastOp,     \* history: the last call, its inputs and its result
    rib,        \* the session engine's global table: the paths ListPath streams
    held,       \* the *PeerState values the last GetPeer / GetAllPeers call handed out
    topology,   \* Parser.topology.Routers: RouterID -> slice header into linkHeap
    linkHeap,   \* backing arrays of the []Link slices: array id -> cells
    snap,       \* the Topology the last GetTopology call handed out: RouterID -> slice header
    corruptionEvents,   \* Validator.corruptionEvents
    vcall,      \* the validation calls in flight: caller -> position and locals
    failures,   \* history: error kind -> the calls that returned it since the last reset
    logEvents,  \* Logger.events: the events buffered in the channel, oldest first
    logClosed,  \* Logger.events has been closed
    published,  \* history: the number of LogEvent calls so far
    delivered,  \* history: the messages processEvents has received, in order
    pc,         \* goroutine -> the statement it executes next
    loc,        \* goroutine -> its local variables
    mu,         \* mutex -> the goroutine that holds it for writing, and those that hold it for reading
    cancelled   \* Monitor.ctx is cancelled

coreVars == <<peers, now, heap, events, got, recorded, flapHist, rib, held>>
ospfVars == <<topology, linkHeap, snap>>
mplsVars == <<corruptionEvents, vcall, failures>>
logVars == <<logEvents, logClosed, published, delivered>>
taskVars == <<pc, loc, mu, cancelled>>
otherVars == <<logVars, taskVars>>
vars == <<peers, now, heap, events, got, recorded, flapHist, lastOp, rib, held,
          ospfVars, mplsVars, otherVars>>

(***************************************************************************)
(* Bounds of the model.                                                    *)
(***************************************************************************)
MaxTime == 500          \* the clock stops advancing here
MaxRegistryFlaps == 2   \* SpecRegistry: the same bound
MaxManualFlaps == 1     \* SpecManual: the same bound
MaxWithdrawFlaps == 1   \* SpecWithdraw: the same bound
MaxFlapCount == 4       \* SpecEngine: no refresh cycle finds an Established peer that flapped this often
MaxLedger == 2          \* no call records an event beyond this many
MaxExtra == 1           \* SpecLedger: events recorded on top of the initial ledger
MaxLSAs == 2            \* a Link State Update carries at most this many LSAs
MaxSnapFlaps == 1       \* SpecSnapshots: the bound on the flaps of a peer
MaxWalk == 2            \* ValidatePacket is followed for this many passes of its loop
MaxFailures == 2        \* no validation call starts once this many have failed since the last reset
MaxLockFlaps == 1       \* no refresh cycle of the lock model starts once an established peer has flapped this often
MaxLockLedger == 1      \* no remediation of the lock model starts once this many events are recorded
MaxReadFlaps == 1       \* no refresh cycle of the read model starts once a peer has flapped this often
MaxLogExtra == 3        \* LogEvent is not called once this many calls exceed the capacity of the channel
MaxDelivered == 3       \* the consumer receives at most this many events

TickSteps == {100}      \* the clock advances in steps of these many seconds

Addrs == {"10.0.0.1", "10.0.0.2"}
ASNs == {65001}
Prefixes == {"203.0.113.0/24"}
Reasons == {"test"}
Interfaces == {"eth0"}
RouterIDs == {1, 2}         \* the routers packets come from
AdvRouters == {2, 3}        \* the advertising routers of LSAs

\* the paths the session engine's global table may hold: one per neighbour
Paths == {[Nlri |-> p, Neighbor |-> a] : p \in Prefixes, a \in Addrs}

(***************************************************************************)
(* Configuration (internal/config defaults).                               *)
(***************************************************************************)
FlapThreshold == 3
FlapWindowSec == 300
MaxEvents == 1000
LogCapacity == 1000     \* make(chan Event, 1000)

(***************************************************************************)
(* Helpers.                                                                *)
(***************************************************************************)
Min(a, b) == IF a <= b THEN a ELSE b

Range(s) == {s[i] : i \in 1..Len(s)}

\* all orders in which a Go "range" over a map with key set S may visit the keys
Orders(S) == {s \in [1..Cardinality(S) -> S] : Range(s) = S}

(***************************************************************************)
(* Session engine answers.                                                 *)
(***************************************************************************)
\* api.PeerState_SessionState values the model draws from, as String() prints them
SessionStates == {"IDLE", "ACTIVE", "ESTABLISHED"}

\* the answers of server.GetPeer: an error, or a session state with the
\* advertised-route count of the adjacency table
PeerResponses ==
    {[err |-> TRUE, SessionState |-> "UNKNOWN", Advertised |-> 0]}
    \cup {[err |-> FALSE, SessionState |-> s, Advertised |-> 0] : s \in {"IDLE", "ACTIVE"}}
    \cup {[err |-> FALSE, SessionState |-> "ESTABLISHED", Advertised |-> n] : n \in {1, 2}}

\* the answers the engine specification draws from
EngineResponses ==
    {[err |-> FALSE, SessionState |-> "IDLE", Advertised |-> 0],
     [err |-> FALSE, SessionState |-> "ESTABLISHED", Advertised |-> 1]}

(***************************************************************************)
(* package bgp: Monitor                                                    *)
(***************************************************************************)
\* AddPeer lines 56-61: the PeerState literal (unset fields are zero values)
NewPeerState(address, asn) ==
    [Address |-> address, ASN |-> asn, State |-> "Idle", PrefixCount |-> 0,
     FlapCount |-> 0, LastFlapTime |-> 0, Established |-> FALSE]

\* AddPeer line 62: m.peers[address] = peer, for any address, present or not
AddPeerMap(ps, address, asn) ==
    [a \in DOMAIN ps \cup {address} |->
        IF a = address THEN NewPeerState(address, asn) ELSE ps[a]]

\* AddPeer that takes the entry out again when the engine rejects the peer
AddPeerOf_Rollback(ps, address, asn, err) ==
    IF err THEN [a \in DOMAIN ps \ {address} |-> ps[a]]
    ELSE AddPeerMap(ps, address, asn)

\* AddPeer lines 53-81: the entry is stored (line 62) before server.AddPeer is
\* called (line 75) and stays when the call returns an error (lines 77-79);
\* err is the outcome of server.AddPeer
AddPeerOf(ps, address, asn, err) == AddPeerMap(ps, address, asn)

\* ApplyResponse without wasEstablished: every non-established poll counts
ApplyResponse_EveryDownPoll(peer, resp, t) ==
    IF resp.SessionState = "ESTABLISHED"
    THEN [peer EXCEPT !.State = "Established", !.Established = TRUE,
                      !.PrefixCount = resp.Advertised]
    ELSE [peer EXCEPT !.State = resp.SessionState, !.Established = FALSE,
                      !.FlapCount = @ + 1, !.LastFlapTime = t]

\* updatePeerStates lines 158-177: the body of the loop for one peer, after a
\* successful GetPeer; t is time.Now()
ApplyResponse(peer, resp, t) ==
    LET wasEstablished == peer.Established
        polled ==
            IF resp.SessionState = "ESTABLISHED"
            THEN [peer EXCEPT !.State = "Established", !.Established = TRUE,
                              !.PrefixCount = resp.Advertised]
            ELSE [peer EXCEPT !.State = resp.SessionState, !.Established = FALSE]
    IN  IF wasEstablished /\ ~polled.Established
        THEN [polled EXCEPT !.FlapCount = @ + 1, !.LastFlapTime = t]
        ELSE polled

\* updatePeerStates lines 147-178: one pass of the loop; an error skips the peer
PollPeer(peer, resp, t) ==
    IF resp.err THEN peer ELSE ApplyResponse(peer, resp, t)

\* WithdrawErr without the check of lines 200-202: a ListPath error is ignored
WithdrawErr_IgnoreList(ps, address, listErr) ==
    IF address \notin DOMAIN ps THEN "not found" ELSE "nil"

\* WithdrawAllPrefixes lines 181-228: the error it returns.  listErr is the
\* outcome of server.ListPath; a DeletePath error only skips that path.
WithdrawErr(ps, address, listErr) ==
    IF address \notin DOMAIN ps THEN "not found"
    ELSE IF listErr THEN "failed to list paths"
    ELSE "nil"

\* WithdrawPeers without the reset of lines 223-225
WithdrawPeers_NoReset(ps, address, listErr) == ps

\* WithdrawPeers that also clears the prefix count of the peer
WithdrawPeers_ClearPrefixes(ps, address, listErr) ==
    IF WithdrawErr(ps, address, listErr) = "nil"
    THEN [ps EXCEPT ![address].FlapCount = 0, ![address].PrefixCount = 0]
    ELSE ps

\* WithdrawAllPrefixes lines 223-225: the registry after the call
WithdrawPeers(ps, address, listErr) ==
    IF WithdrawErr(ps, address, listErr) = "nil"
    THEN [ps EXCEPT ![address].FlapCount = 0]
    ELSE ps

\* WithdrawAllPrefixes lines 199-221: the global table after the call.  Every
\* path ListPath streams is passed to DeletePath, whatever its neighbour;
\* deleteErrs are the paths for which DeletePath returns an error
WithdrawRib(rb, ps, address, listErr, deleteErrs) ==
    IF WithdrawErr(ps, address, listErr) = "nil" THEN rb \cap deleteErrs ELSE rb

\* GetPeer lines 97-105 / GetAllPeers lines 115-123: the copy handed out
CopyPeer(peer) ==
    [Address |-> peer.Address, ASN |-> peer.ASN, State |-> peer.State,
     PrefixCount |-> peer.PrefixCount, FlapCount |-> peer.FlapCount,
     LastFlapTime |-> peer.LastFlapTime, Established |-> peer.Established]

\* A *PeerState is a reference: to an object of its own, whose fields the
\* reference carries, or to the object the registry holds for an address.
Deref(ps, r) == IF r.obj = "own" THEN r.val ELSE ps[r.address]

\* HandOut without the copy: return peer
HandOut_Alias(ps, address) == [obj |-> "registry", address |-> address]

\* GetPeer line 97 / GetAllPeers line 115: &PeerState{...}, a new object
HandOut(ps, address) == [obj |-> "own", val |-> CopyPeer(ps[address])]

\* GetAllPeers lines 108-127: the copies, in the order the map range visits them
GetAllPeersIn(ps, order) == [i \in 1..Len(order) |-> CopyPeer(ps[order[i]])]

(***************************************************************************)
(* Go slices of RemediationEvent.  A slice header [arr, off, len] points   *)
(* into a backing array heap[arr]; arr = 0 is the slice without an array.  *)
(***************************************************************************)
\* the zero value of RemediationEvent (lines 116-123)
ZeroEvent ==
    [Timestamp |-> 0, Type |-> "", Target |-> "", Reason |-> "", Action |-> "",
     Success |-> FALSE]

Zeros(n) == [i \in 1..n |-> ZeroEvent]

EmptySlice == [arr |-> 0, off |-> 0, len |-> 0]

\* cap(s)
Cap(h, s) == IF s.arr = 0 THEN 0 ELSE Len(h[s.arr]) - s.off

\* the elements s[0], ..., s[len-1]
View(h, s) == [i \in 1..s.len |-> h[s.arr][s.off + i]]

\* the smallest array id not in use
NewArr(h) == CHOOSE i \in 1..(Cardinality(DOMAIN h) + 1) :
                 i \notin DOMAIN h /\ \A j \in 1..(i - 1) : j \in DOMAIN h

Alloc(h, cells) == [i \in DOMAIN h \cup {NewArr(h)} |-> IF i \in DOMAIN h THEN h[i] ELSE cells]

\* the arrays some live slice still points to (the garbage collector frees the others)
Collect(h, slices) == [i \in DOMAIN h \cap {s.arr : s \in slices} |-> h[i]]

\* the capacity append gives a full slice of capacity c (runtime growslice:
\* doubling below 256 elements, then growth by (c + 768) / 4)
GrowCap(c) == IF c = 0 THEN 1 ELSE IF c < 256 THEN 2 * c ELSE c + (c + 768) \div 4

\* recordEvent line 272: append(e.events, event); writes in place when the
\* array has room, else moves the elements to a new array
AppendEvent(h, s, event) ==
    IF s.len < Cap(h, s)
    THEN [heap |-> [h EXCEPT ![s.arr][s.off + s.len + 1] = event],
          slice |-> [s EXCEPT !.len = @ + 1]]
    ELSE [heap |-> Alloc(h, View(h, s) \o <<event>> \o Zeros(GrowCap(s.len) - s.len - 1)),
          slice |-> [arr |-> NewArr(h), off |-> 0, len |-> s.len + 1]]

\* TrimEvents that keeps the oldest 1000: e.events[:1000]
TrimEvents_KeepOldest(s) ==
    IF s.len > MaxEvents THEN [s EXCEPT !.len = MaxEvents] ELSE s

\* recordEvent lines 275-277: e.events[len(e.events)-1000:]
TrimEvents(s) ==
    IF s.len > MaxEvents
    THEN [s EXCEPT !.off = @ + (s.len - MaxEvents), !.len = MaxEvents]
    ELSE s

\* recordEvent lines 269-278
recordEvent(h, s, event) ==
    LET a == AppendEvent(h, s, event)
    IN  [heap |-> a.heap, slice |-> TrimEvents(a.slice)]

\* the recordEvent calls of one handler, in order
RECURSIVE RecordAll(_, _, _)
RecordAll(h, s, evs) ==
    IF evs = <<>> THEN [heap |-> h, slice |-> s]
    ELSE LET r == recordEvent(h, s, Head(evs))
         IN  RecordAll(r.heap, r.slice, Tail(evs))

\* GetEvents lines 284-286: the limit actually used
EffectiveLimit(n, limit) == IF limit <= 0 \/ limit > n THEN n ELSE limit

\* CopyEvents without the copy: return e.events[len(e.events)-limit:]
CopyEvents_Alias(h, s, limit) ==
    [heap |-> h, slice |-> [s EXCEPT !.off = @ + (s.len - limit), !.len = limit]]

\* GetEvents lines 288-290: make a slice of limit elements and copy the last
\* limit events into it
CopyEvents(h, s, limit) ==
    LET src == [s EXCEPT !.off = @ + (s.len - limit), !.len = limit]
    IN  [heap |-> Alloc(h, View(h, src)),
         slice |-> [arr |-> NewArr(h), off |-> 0, len |-> limit]]

\* GetEvents lines 280-291
GetEventsOf(h, s, limit) == CopyEvents(h, s, EffectiveLimit(s.len, limit))

\* GetRemediationCount lines 293-304
GetRemediationCount(h, s, reason) ==
    Cardinality({i \in 1..s.len : View(h, s)[i].Reason = reason /\ View(h, s)[i].Success})

(***************************************************************************)
(* package auto: Engine                                                    *)
(***************************************************************************)
\* ShouldRemediate with >= for > on the threshold
ShouldRemediate_AtThreshold(peer, t) ==
    /\ peer.FlapCount >= FlapThreshold
    /\ peer.LastFlapTime # 0
    /\ t - peer.LastFlapTime < FlapWindowSec

\* checkAndRemediate lines 173-178: the test on the copy of one peer; t is now
ShouldRemediate(peer, t) ==
    /\ peer.FlapCount > FlapThreshold
    /\ peer.LastFlapTime # 0
    /\ t - peer.LastFlapTime < FlapWindowSec

\* FlapEvent with success set before the withdrawal is checked
FlapEvent_AlwaysSuccess(peerAddress, err, t) ==
    [Timestamp |-> t, Type |-> "bgp_flap", Target |-> peerAddress, Reason |-> "flap",
     Action |-> "withdraw_all_prefixes", Success |-> TRUE]

\* remediateFlap lines 183-199: the event it records
FlapEvent(peerAddress, err, t) ==
    [Timestamp |-> t, Type |-> "bgp_flap", Target |-> peerAddress, Reason |-> "flap",
     Action |-> "withdraw_all_prefixes", Success |-> (err = "nil")]

\* RemediateRPKI lines 203-215
RPKIEvent(prefix, t) ==
    [Timestamp |-> t, Type |-> "rpki_invalid", Target |-> prefix, Reason |-> "rpki",
     Action |-> "withdraw_prefix", Success |-> TRUE]

\* RemediateOSPFAdjacency lines 221-233
OSPFEvent(interfaceName, t) ==
    [Timestamp |-> t, Type |-> "ospf_adjacency", Target |-> interfaceName,
     Reason |-> "adjacency_down", Action |-> "restart_interface", Success |-> TRUE]

\* ManualEvent with the reason fixed instead of the caller's
ManualEvent_FixedReason(peer, reason, success, t) ==
    [Timestamp |-> t, Type |-> "manual", Target |-> peer, Reason |-> "manual",
     Action |-> "manual_remediation", Success |-> success]

\* RemediateManual lines 239-246, 250, 264
ManualEvent(peer, reason, success, t) ==
    [Timestamp |-> t, Type |-> "manual", Target |-> peer, Reason |-> reason,
     Action |-> "manual_remediation", Success |-> success]

\* checkAndRemediate lines 166-179: the loop over the snapshot from position i
\* on.  failing is the set of peers for which ListPath fails.  The result is
\* the registry after the loop and the events recorded, in order.
RECURSIVE CheckFrom(_, _, _, _, _)
CheckFrom(ps, snapshot, i, failing, t) ==
    IF i > Len(snapshot) THEN [peers |-> ps, evs |-> <<>>]
    ELSE LET copy == snapshot[i]
             addr == copy.Address
         IN  IF ShouldRemediate(copy, t)
             THEN LET err  == WithdrawErr(ps, addr, addr \in failing)
                      rest == CheckFrom(WithdrawPeers(ps, addr, addr \in failing),
                                        snapshot, i + 1, failing, t)
                  IN  [peers |-> rest.peers,
                       evs |-> <<FlapEvent(addr, err, t)>> \o rest.evs]
             ELSE CheckFrom(ps, snapshot, i + 1, failing, t)

\* checkAndRemediate lines 161-180
CheckAndRemediateOf(ps, order, failing, t) ==
    CheckFrom(ps, GetAllPeersIn(ps, order), 1, failing, t)

\* RemediateManualOf without the return of line 252: goes on after a failed
\* withdrawal
RemediateManualOf_NoAbort(ps, peer, prefix, reason, listErr, t) ==
    LET failed == peer # "" /\ WithdrawErr(ps, peer, listErr) # "nil"
    IN  [err |-> "nil",
         peers |-> IF peer # "" THEN WithdrawPeers(ps, peer, listErr) ELSE ps,
         evs |-> (IF failed THEN <<ManualEvent(peer, reason, FALSE, t)>> ELSE <<>>)
                 \o (IF prefix # "" THEN <<RPKIEvent(prefix, t)>> ELSE <<>>)
                 \o <<ManualEvent(peer, reason, TRUE, t)>>]

\* RemediateManual lines 238-267: the error returned, the registry after the
\* call and the events recorded, in order
RemediateManualOf(ps, peer, prefix, reason, listErr, t) ==
    IF peer # "" /\ WithdrawErr(ps, peer, listErr) # "nil"
    THEN [err |-> "failed to remediate peer", peers |-> ps,
          evs |-> <<ManualEvent(peer, reason, FALSE, t)>>]
    ELSE [err |-> "nil",
          peers |-> IF peer # "" THEN WithdrawPeers(ps, peer, listErr) ELSE ps,
          evs |-> (IF prefix # "" THEN <<RPKIEvent(prefix, t)>> ELSE <<>>)
                  \o <<ManualEvent(peer, reason, TRUE, t)>>]

\* the ledger as a sequence, oldest first
Ledger == View(heap, events)

(***************************************************************************)
(* package ospf: Parser.  Topology.Routers maps a RouterID to a []Link, a   *)
(* slice header into linkHeap.                                             *)
(***************************************************************************)
\* the zero value of Link (part_003 lines 271-275)
ZeroLink == [RemoteRouterID |-> 0, Cost |-> 0, State |-> ""]

\* processOSPFPacket lines 370-374: the link of one LSA
NewLink(advertisingRouter) ==
    [RemoteRouterID |-> advertisingRouter, Cost |-> 100, State |-> "Up"]

\* EnsureRouter without the test for an existing entry: the entry is always
\* set to []Link{}
EnsureRouter_Reset(routers, routerID) ==
    [r \in DOMAIN routers \cup {routerID} |->
        IF r = routerID THEN EmptySlice ELSE routers[r]]

\* lines 341-343, 353-355, 360-362, 376-378, 398-400: the entry of the router
\* is made, with []Link{}, if the map has none
EnsureRouter(routers, routerID) ==
    [r \in DOMAIN routers \cup {routerID} |->
        IF r \in DOMAIN routers THEN routers[r] ELSE EmptySlice]

\* line 390: append(links, link)
AppendLink(h, s, link) ==
    IF s.len < Cap(h, s)
    THEN [heap |-> [h EXCEPT ![s.arr][s.off + s.len + 1] = link],
          slice |-> [s EXCEPT !.len = @ + 1]]
    ELSE [heap |-> Alloc(h, View(h, s) \o <<link>>
                            \o [i \in 1..(GrowCap(s.len) - s.len - 1) |-> ZeroLink]),
          slice |-> [arr |-> NewArr(h), off |-> 0, len |-> s.len + 1]]

\* MergeLSA without the search of lines 382-388: the link is always appended
MergeLSA_NoDedup(h, routers, routerID, advertisingRouter) ==
    LET ensured == EnsureRouter(routers, routerID)
        a       == AppendLink(h, ensured[routerID], NewLink(advertisingRouter))
    IN  [heap |-> a.heap, routers |-> [ensured EXCEPT ![routerID] = a.slice]]

\* MergeLSA with the search of lines 382-388 cut short after the first link
MergeLSA_CheckFirst(h, routers, routerID, advertisingRouter) ==
    LET link    == NewLink(advertisingRouter)
        ensured == EnsureRouter(routers, routerID)
        links   == ensured[routerID]
        found   == links.len > 0 /\ View(h, links)[1].RemoteRouterID = link.RemoteRouterID
    IN  IF found THEN [heap |-> h, routers |-> ensured]
        ELSE LET a == AppendLink(h, links, link)
             IN  [heap |-> a.heap, routers |-> [ensured EXCEPT ![routerID] = a.slice]]

\* lines 370-391: the body of the loop for one LSA
MergeLSA(h, routers, routerID, advertisingRouter) ==
    LET link    == NewLink(advertisingRouter)
        ensured == EnsureRouter(routers, routerID)
        links   == ensured[routerID]
        found   == \E i \in 1..links.len :
                       View(h, links)[i].RemoteRouterID = link.RemoteRouterID
    IN  IF found THEN [heap |-> h, routers |-> ensured]
        ELSE LET a == AppendLink(h, links, link)
             IN  [heap |-> a.heap, routers |-> [ensured EXCEPT ![routerID] = a.slice]]

\* lines 369-392: the loop over lsu.LSAs
RECURSIVE MergeLSAs(_, _, _, _)
MergeLSAs(h, routers, routerID, lsas) ==
    IF lsas = <<>> THEN [heap |-> h, routers |-> routers]
    ELSE LET m == MergeLSA(h, routers, routerID, Head(lsas))
         IN  MergeLSAs(m.heap, m.routers, routerID, Tail(lsas))

\* processOSPFPacket lines 331-402.  pkt.HasBody says that ospf.Hello (for a
\* Hello) or ospf.LSU (for a Link State Update) is not nil; pkt.LSAs are the
\* advertising routers of lsu.LSAs
ProcessOf(h, routers, pkt) ==
    CASE pkt.Type = "Hello" ->
            [heap |-> h,
             routers |-> IF pkt.HasBody THEN EnsureRouter(routers, pkt.RouterID)
                         ELSE routers]
      [] pkt.Type = "LinkStateUpdate" ->
            IF pkt.HasBody THEN MergeLSAs(h, routers, pkt.RouterID, pkt.LSAs)
            ELSE [heap |-> h, routers |-> routers]
      [] pkt.Type \in {"DatabaseDescription", "LinkStateRequest",
                       "LinkStateAcknowledgment"} ->
            [heap |-> h, routers |-> EnsureRouter(routers, pkt.RouterID)]
      [] OTHER -> [heap |-> h, routers |-> routers]

\* CopyLinks without the copy: topo.Routers[k] = v
CopyLinks_Alias(h, v) == [heap |-> h, slice |-> v]

\* GetTopology lines 413-414: make([]Link, len(v)) and copy(links, v)
CopyLinks(h, v) ==
    IF v.len = 0 THEN [heap |-> h, slice |-> EmptySlice]
    ELSE [heap |-> Alloc(h, View(h, v)),
          slice |-> [arr |-> NewArr(h), off |-> 0, len |-> v.len]]

\* GetTopology lines 412-416: the loop over the map, in the order of the range,
\* from position i on; topo is the map built so far
RECURSIVE CopyRouters(_, _, _, _, _)
CopyRouters(h, routers, order, i, topo) ==
    IF i > Len(order) THEN [heap |-> h, routers |-> topo]
    ELSE LET c == CopyLinks(h, routers[order[i]])
         IN  CopyRouters(c.heap, routers, order, i + 1,
                         [r \in DOMAIN topo \cup {order[i]} |->
                             IF r = order[i] THEN c.slice ELSE topo[r]])

\* GetTopology lines 404-418
GetTopologyOf(h, routers, order) == CopyRouters(h, routers, order, 1, [r \in {} |-> 0])

\* a Topology as the links of each router, in slice order
Links(h, routers) == [r \in DOMAIN routers |-> View(h, routers[r])]

(***************************************************************************)
(* package mpls: Validator                                                 *)
(***************************************************************************)
\* InRange with the reserved labels 0-15 accepted
InRange_Reserved(v) == v >= 0 /\ v <= 1048575

\* part_002 lines 60, 103: the negation of label < 16 || label > 1048575
InRange(v) == v >= 16 /\ v <= 1048575

\* ValidatePacket lines 59-73: the error of one label, "nil" if it has none
CheckLabel(label) ==
    IF ~InRange(label.Value) THEN "InvalidLabelValue"
    ELSE IF label.TTL = 0 THEN "TTLExpired"
    ELSE "nil"

\* lines 34, 83: packet.Layer(layers.LayerTypeMPLS), the first MPLS layer of
\* the packet; a packet is the sequence of its MPLS layers, 0 is no layer
LayerMPLS(packet) == IF packet = <<>> THEN 0 ELSE 1

\* lines 44-47
NewStack == [Labels |-> <<>>, Valid |-> TRUE, Error |-> ""]

\* ValidateLabelStack lines 101-107: the position, from 1, of the first label
\* out of range; 0 if there is none
FirstInvalid(labels) ==
    IF \A i \in 1..Len(labels) : InRange(labels[i]) THEN 0
    ELSE CHOOSE i \in 1..Len(labels) :
             ~InRange(labels[i]) /\ \A j \in 1..(i - 1) : InRange(labels[j])

\* Increment that does not count
Increment_Lost(n) == n

\* recordCorruption line 115
Increment(n) == n + 1

(***************************************************************************)
(* Actions.                                                                *)
(***************************************************************************)
\* the errors of the validator
(***************************************************************************)
(* package telemetry: Logger.  The channel is the sequence of the events   *)
(* it buffers; a message is identified by the number of the LogEvent call  *)
(* that made it.                                                           *)
(***************************************************************************)
\* LogEvent lines 41-47: the Event of a call
LogRecord(message, t) == [Timestamp |-> t, Message |-> message]

\* Publish that makes room by discarding the oldest buffered event
Publish_DropOldest(ch, event) ==
    IF Len(ch) < LogCapacity THEN Append(ch, event) ELSE Append(Tail(ch), event)

\* LogEvent lines 49-54: select { case l.events <- event: default: } on an
\* open channel: the send is taken if the buffer has room, else the default
Publish(ch, event) ==
    IF Len(ch) < LogCapacity THEN Append(ch, event) ELSE ch

\* NewLogger lines 31-38: make(chan Event, 1000)
InitLogger ==
    /\ logEvents = <<>>
    /\ logClosed = FALSE
    /\ published = 0
    /\ delivered = <<>>

\* Logger.LogEvent (lines 40-55).  A send on a closed channel panics.
LogEvent ==
    /\ published' = published + 1
    /\ logEvents' = IF logClosed THEN logEvents
                    ELSE Publish(logEvents, LogRecord(published + 1, now))
    /\ lastOp' = [op |-> "LogEvent", message |-> published + 1,
                  panic |-> logClosed,
                  dropped |-> ~logClosed /\ Len(logEvents) >= LogCapacity]
    /\ UNCHANGED <<coreVars, ospfVars, mplsVars, taskVars, logClosed, delivered>>

\* Logger.processEvents (lines 57-66): one pass of the loop over the channel,
\* which blocks while the channel is empty and open
processEvents ==
    /\ logEvents # <<>>
    /\ logEvents' = Tail(logEvents)
    /\ delivered' = Append(delivered, Head(logEvents).Message)
    /\ lastOp' = [op |-> "processEvents", message |-> Head(logEvents).Message]
    /\ UNCHANGED <<coreVars, ospfVars, mplsVars, taskVars, logClosed, published>>

\* Logger.Close (lines 68-70); closing a closed channel panics
LoggerClose ==
    /\ logClosed' = TRUE
    /\ lastOp' = [op |-> "LoggerClose", panic |-> logClosed]
    /\ UNCHANGED <<coreVars, ospfVars, mplsVars, taskVars, logEvents, published, delivered>>

(***************************************************************************)
(* Goroutines and mutexes.  The refresh goroutine runs Monitor.monitorPeers, *)
(* the evaluation goroutine Engine.Start, the capture goroutine the packet *)
(* loop of the parser; the others serve the calls of the API, the CLI and  *)
(* the exporter.  pc is the statement a goroutine executes next, named by  *)
(* function and line.  A sync.RWMutex is held by one writer or by a set of *)
(* readers; the mutex of a PeerState is named by the address of the peer.  *)
(***************************************************************************)
Goroutines == {"refresh", "eval", "api1", "api2", "capture"}

Registries == {"m.mu", "e.mu", "topology.mu"}
Mutexes == Registries \cup Addrs

Free == [w |-> "none", r |-> {}]

NoLocals ==
    [op |-> "none", address |-> "", todo |-> <<>>, ret |-> <<>>, resp |-> "none",
     was |-> FALSE, stale |-> FALSE, evs |-> <<>>, t |-> 0, arg |-> "none"]

\* goroutine g has called Lock on mutex l and not got it yet
WantsLock(g, l) ==
    \/ pc[g] = "AddPeer:53" /\ l = "m.mu"
    \/ pc[g] = "updatePeerStates:158" /\ l = Head(loc[g].todo)
    \/ pc[g] = "WithdrawAllPrefixes:223" /\ ~loc[g].stale /\ l = loc[g].address
    \/ pc[g] = "recordEvent:270" /\ l = "e.mu"
    \/ pc[g] = "processOSPFPacket:332" /\ l = "topology.mu"

\* sync.RWMutex: Lock returns when no goroutine holds the mutex
CanLock(l) == mu[l].w = "none" /\ mu[l].r = {}

\* sync.RWMutex: RLock returns when no goroutine holds the mutex for writing
\* and none is waiting in Lock
CanRLock(g, l) ==
    /\ mu[l].w = "none"
    /\ \A h \in Goroutines \ {g} : ~WantsLock(h, l)

LockOf(m, l, g) == [m EXCEPT ![l].w = g]
UnlockOf(m, l, g) == [m EXCEPT ![l].w = "none"]
RLockOf(m, l, g) == [m EXCEPT ![l].r = @ \cup {g}]
RUnlockOf(m, l, g) == [m EXCEPT ![l].r = @ \ {g}]

\* the mutexes goroutine g holds
Held(g) == {l \in Mutexes : mu[l].w = g \/ g \in mu[l].r}

\* NewMonitor line 48 (go m.monitorPeers()) and Initialize line 373
\* (go autoEngine.Start(ctx)); the other goroutines wait for a call
InitGoroutines ==
    /\ pc = [g \in Goroutines |->
                IF g = "refresh" THEN "monitorPeers:134"
                ELSE IF g = "eval" THEN "Start:144" ELSE "idle"]
    /\ loc = [g \in Goroutines |-> NoLocals]
    /\ mu = [l \in Mutexes |-> Free]
    /\ cancelled = FALSE

ErrorKinds == {"NoLabelLayer", "InvalidLabelValue", "TTLExpired", "EmptyStack"}

\* the goroutines that call the validator
Callers == {1, 2}

\* a caller that is not in a validation call
Idle == [pc |-> "idle"]

\* the session engine without paths, nothing handed out yet, and the state
\* after NewParser (part_003 lines 297-303) and NewValidator (part_002 lines 29-31)
InitParsers ==
    /\ rib = {}
    /\ held = <<>>
    /\ topology = [r \in {} |-> 0]
    /\ linkHeap = [i \in {} |-> <<>>]
    /\ snap = [r \in {} |-> 0]
    /\ corruptionEvents = 0
    /\ vcall = [c \in Callers |-> Idle]
    /\ failures = [k \in ErrorKinds |-> 0]

InitRest == InitParsers /\ InitLogger /\ InitGoroutines

\* the state after NewMonitor (lines 33-50) and NewEngine (lines 134-141)
Init ==
    /\ peers = [a \in {} |-> 0]
    /\ now = 100
    /\ heap = [i \in {} |-> <<>>]
    /\ events = EmptySlice
    /\ got = EmptySlice
    /\ recorded = <<>>
    /\ flapHist = [a \in Addrs |-> [total |-> 0, first |-> 0]]
    /\ lastOp = [op |-> "init"]
    /\ InitRest

\* the clock advances
Tick(d) ==
    /\ now' = now + d
    /\ lastOp' = [op |-> "Tick"]
    /\ UNCHANGED <<otherVars, rib, held, ospfVars, mplsVars, peers, heap, events, got, recorded, flapHist>>

\* Monitor.AddPeer; err is the answer of server.AddPeer
AddPeer(address, asn, err) ==
    /\ peers' = AddPeerOf(peers, address, asn, err)
    /\ lastOp' = [op |-> "AddPeer", address |-> address, err |-> err]
    /\ UNCHANGED <<otherVars, rib, held, ospfVars, mplsVars, now, heap, events, got, recorded, flapHist>>

\* Monitor.updatePeerStates; resp[a] is the answer of server.GetPeer for a
updatePeerStates(resp) ==
    /\ peers' = [a \in DOMAIN peers |-> PollPeer(peers[a], resp[a], now)]
    /\ flapHist' = [a \in Addrs |->
          IF a \in DOMAIN peers /\ peers'[a].FlapCount > peers[a].FlapCount
          THEN [total |-> flapHist[a].total + 1,
                first |-> IF flapHist[a].total = 0 THEN now ELSE flapHist[a].first]
          ELSE flapHist[a]]
    /\ lastOp' = [op |-> "updatePeerStates",
                  polled |-> DOMAIN resp,
                  failed |-> {a \in DOMAIN resp : resp[a].err},
                  was |-> {a \in DOMAIN peers : peers[a].Established},
                  down |-> {a \in DOMAIN peers :
                               ~resp[a].err /\ resp[a].SessionState # "ESTABLISHED"}]
    /\ UNCHANGED <<otherVars, rib, held, ospfVars, mplsVars, now, heap, events, got, recorded>>

\* Monitor.WithdrawAllPrefixes; listErr is the outcome of server.ListPath,
\* deleteErrs the paths for which server.DeletePath returns an error
WithdrawAllPrefixes(address, listErr, deleteErrs) ==
    /\ peers' = WithdrawPeers(peers, address, listErr)
    /\ rib' = WithdrawRib(rib, peers, address, listErr, deleteErrs)
    /\ lastOp' = [op |-> "WithdrawAllPrefixes", address |-> address,
                  listErr |-> listErr, deleteErrs |-> deleteErrs,
                  err |-> WithdrawErr(peers, address, listErr)]
    /\ UNCHANGED <<otherVars, held, ospfVars, mplsVars, now, heap, events, got, recorded, flapHist>>

\* Monitor.GetPeer (lines 84-106)
GetPeer(address) ==
    /\ held' = IF address \in DOMAIN peers THEN <<HandOut(peers, address)>> ELSE <<>>
    /\ lastOp' = [op |-> "GetPeer", address |-> address,
                  ret |-> IF address \in DOMAIN peers
                          THEN <<CopyPeer(peers[address])>> ELSE <<>>]
    /\ UNCHANGED <<otherVars, rib, ospfVars, mplsVars, peers, now, heap, events, got, recorded, flapHist>>

\* Monitor.GetAllPeers; order is the order of the map range
GetAllPeers(order) ==
    /\ held' = [i \in 1..Len(order) |-> HandOut(peers, order[i])]
    /\ lastOp' = [op |-> "GetAllPeers", ret |-> GetAllPeersIn(peers, order)]
    /\ UNCHANGED <<otherVars, rib, ospfVars, mplsVars, peers, now, heap, events, got, recorded, flapHist>>

\* the recordEvent calls of a handler, applied to the ledger
Record(evs) ==
    LET r == RecordAll(heap, events, evs)
    IN  /\ events' = r.slice
        /\ heap' = Collect(r.heap, {r.slice, got})
        /\ recorded' = recorded \o evs
        /\ got' = got

\* Engine.checkAndRemediate: one evaluation cycle; failing are the peers for
\* which server.ListPath fails, deleteErrs the paths server.DeletePath refuses
checkAndRemediate(order, failing, deleteErrs) ==
    LET r == CheckAndRemediateOf(peers, order, failing, now)
    IN  /\ peers' = r.peers
        /\ rib' = IF \E i \in 1..Len(r.evs) : r.evs[i].Success
                  THEN rib \cap deleteErrs ELSE rib
        /\ Record(r.evs)
        /\ lastOp' = [op |-> "checkAndRemediate", failing |-> failing \cap DOMAIN peers]
        /\ UNCHANGED <<otherVars, held, ospfVars, mplsVars, now, flapHist>>

\* Engine.RemediateRPKI
RemediateRPKI(prefix) ==
    /\ Record(<<RPKIEvent(prefix, now)>>)
    /\ lastOp' = [op |-> "RemediateRPKI", prefix |-> prefix]
    /\ UNCHANGED <<otherVars, rib, held, ospfVars, mplsVars, peers, now, flapHist>>

\* Engine.RemediateOSPFAdjacency
RemediateOSPFAdjacency(interfaceName) ==
    /\ Record(<<OSPFEvent(interfaceName, now)>>)
    /\ lastOp' = [op |-> "RemediateOSPFAdjacency", interfaceName |-> interfaceName]
    /\ UNCHANGED <<otherVars, rib, held, ospfVars, mplsVars, peers, now, flapHist>>

\* Engine.RemediateManual; listErr is the outcome of server.ListPath,
\* deleteErrs the paths server.DeletePath refuses
RemediateManual(peer, prefix, reason, listErr, deleteErrs) ==
    LET r == RemediateManualOf(peers, peer, prefix, reason, listErr, now)
    IN  /\ peers' = r.peers
        /\ rib' = IF peer # "" THEN WithdrawRib(rib, peers, peer, listErr, deleteErrs)
                  ELSE rib
        /\ Record(r.evs)
        /\ lastOp' = [op |-> "RemediateManual", peer |-> peer, prefix |-> prefix,
                      reason |-> reason, listErr |-> listErr, err |-> r.err]
        /\ UNCHANGED <<otherVars, held, ospfVars, mplsVars, now, flapHist>>

\* Engine.GetEvents
GetEvents(limit) ==
    LET r == GetEventsOf(heap, events, limit)
    IN  /\ got' = r.slice
        /\ heap' = Collect(r.heap, {events, r.slice})
        /\ lastOp' = [op |-> "GetEvents", limit |-> limit]
        /\ UNCHANGED <<otherVars, rib, held, ospfVars, mplsVars, peers, now, events, recorded, flapHist>>

\* the session engine puts a path it received from a neighbour into its
\* global table
ReceivePath(path) ==
    /\ path \notin rib
    /\ rib' = rib \cup {path}
    /\ lastOp' = [op |-> "ReceivePath"]
    /\ UNCHANGED <<otherVars, peers, now, heap, events, got, recorded, flapHist, held,
                   ospfVars, mplsVars>>

\* the headers of all []Link slices that are alive
LiveLinks(routers, topo) ==
    {routers[r] : r \in DOMAIN routers} \cup {topo[r] : r \in DOMAIN topo}

\* Parser.processOSPFPacket
processOSPFPacket(pkt) ==
    LET r == ProcessOf(linkHeap, topology, pkt)
    IN  /\ topology' = r.routers
        /\ linkHeap' = Collect(r.heap, LiveLinks(r.routers, snap))
        /\ lastOp' = [op |-> "processOSPFPacket", pkt |-> pkt]
        /\ UNCHANGED <<otherVars, peers, now, heap, events, got, recorded, flapHist, rib, held,
                       snap, mplsVars>>

\* Parser.GetTopology; order is the order of the map range
GetTopology(order) ==
    LET r == GetTopologyOf(linkHeap, topology, order)
    IN  /\ snap' = r.routers
        /\ linkHeap' = Collect(r.heap, LiveLinks(topology, r.routers))
        /\ lastOp' = [op |-> "GetTopology"]
        /\ UNCHANGED <<otherVars, peers, now, heap, events, got, recorded, flapHist, rib, held,
                       topology, mplsVars>>

\* the caller of GetTopology overwrites link i of router r in the Topology it
\* was given
MutateSnapLink(r, i) ==
    /\ r \in DOMAIN snap
    /\ 1 <= i /\ i <= snap[r].len
    /\ linkHeap[snap[r].arr][snap[r].off + i].State # "overwritten"
    /\ linkHeap' = [linkHeap EXCEPT ![snap[r].arr][snap[r].off + i] =
                       [@ EXCEPT !.State = "overwritten", !.RemoteRouterID = 0]]
    /\ lastOp' = [op |-> "MutateSnapLink", r |-> r, i |-> i]
    /\ UNCHANGED <<otherVars, peers, now, heap, events, got, recorded, flapHist, rib, held,
                   topology, snap, mplsVars>>

\* the caller of GetTopology replaces the link set of router r in the Topology
\* it was given: it deletes the key
DropSnapRouter(r) ==
    /\ r \in DOMAIN snap
    /\ snap' = [x \in DOMAIN snap \ {r} |-> snap[x]]
    /\ linkHeap' = Collect(linkHeap, LiveLinks(topology, snap'))
    /\ lastOp' = [op |-> "DropSnapRouter", r |-> r]
    /\ UNCHANGED <<otherVars, peers, now, heap, events, got, recorded, flapHist, rib, held,
                   topology, mplsVars>>

\* the caller of GetPeer / GetAllPeers writes fields of the i-th PeerState it
\* was given
MutateHeld(i) ==
    /\ 1 <= i /\ i <= Len(held)
    /\ Deref(peers, held[i]).State # "overwritten"
    /\ LET w == [Deref(peers, held[i]) EXCEPT !.State = "overwritten",
                                               !.Established = ~@,
                                               !.FlapCount = @ + 1]
       IN  IF held[i].obj = "own"
           THEN held' = [held EXCEPT ![i].val = w] /\ peers' = peers
           ELSE peers' = [peers EXCEPT ![held[i].address] = w] /\ held' = held
    /\ lastOp' = [op |-> "MutateHeld", i |-> i]
    /\ UNCHANGED <<otherVars, now, heap, events, got, recorded, flapHist, rib, ospfVars, mplsVars>>

\* what a validation call returns to caller c: the LabelStack ("nil" for none),
\* the error kind ("nil" for none) and the label value the error cites
Returns(c, call, input, stack, err, errv) ==
    /\ lastOp' = [op |-> "return", call |-> call, c |-> c, input |-> input,
                  stack |-> stack, err |-> err, errv |-> errv,
                  bumps |-> corruptionEvents' - corruptionEvents]
    /\ failures' = IF err = "nil" THEN failures ELSE [failures EXCEPT ![err] = @ + 1]

\* Validator.ValidatePacket, lines 33-47: up to the loop
ValidatePacketCall(c, packet) ==
    /\ vcall[c].pc = "idle"
    /\ UNCHANGED <<otherVars, peers, now, heap, events, got, recorded, flapHist, rib, held,
                   ospfVars, corruptionEvents>>
    /\ IF LayerMPLS(packet) = 0
       THEN /\ Returns(c, "ValidatePacket", packet, "nil", "NoLabelLayer", 0)
            /\ vcall' = vcall
       ELSE /\ vcall' = [vcall EXCEPT ![c] =
                           [pc |-> "walk", call |-> "ValidatePacket", input |-> packet,
                            current |-> LayerMPLS(packet), stack |-> NewStack]]
            /\ lastOp' = [op |-> "ValidatePacketCall", c |-> c]
            /\ failures' = failures

\* Validator.ValidatePacket, lines 51-91: one pass of the loop
ValidatePacketLabel(c) ==
    /\ vcall[c].pc = "walk"
    /\ UNCHANGED <<otherVars, peers, now, heap, events, got, recorded, flapHist, rib, held,
                   ospfVars, corruptionEvents>>
    /\ LET packet == vcall[c].input
           label  == packet[vcall[c].current]
           stack  == vcall[c].stack
           k      == CheckLabel(label)
           pushed == [stack EXCEPT !.Labels = Append(@, label)]
           next   == LayerMPLS(packet)
       IN  IF k # "nil"
           THEN /\ vcall' = [vcall EXCEPT ![c] =
                               [pc |-> "record", call |-> "ValidatePacket",
                                input |-> packet,
                                stack |-> [stack EXCEPT !.Valid = FALSE, !.Error = k],
                                err |-> k, errv |-> label.Value]]
                /\ lastOp' = [op |-> "ValidatePacketLabel", c |-> c]
                /\ failures' = failures
           ELSE IF label.BoS \/ next = 0
           THEN /\ Returns(c, "ValidatePacket", packet, pushed, "nil", 0)
                /\ vcall' = [vcall EXCEPT ![c] = Idle]
           ELSE /\ vcall' = [vcall EXCEPT ![c].stack = pushed, ![c].current = next]
                /\ lastOp' = [op |-> "ValidatePacketLabel", c |-> c]
                /\ failures' = failures

\* Validator.ValidateLabelStack, lines 96-110, up to the recordCorruption call
ValidateLabelStack(c, labels) ==
    /\ vcall[c].pc = "idle"
    /\ UNCHANGED <<otherVars, peers, now, heap, events, got, recorded, flapHist, rib, held,
                   ospfVars, corruptionEvents>>
    /\ IF Len(labels) = 0
       THEN /\ Returns(c, "ValidateLabelStack", labels, "nil", "EmptyStack", 0)
            /\ vcall' = vcall
       ELSE IF FirstInvalid(labels) = 0
       THEN /\ Returns(c, "ValidateLabelStack", labels, "nil", "nil", 0)
            /\ vcall' = vcall
       ELSE /\ vcall' = [vcall EXCEPT ![c] =
                           [pc |-> "record", call |-> "ValidateLabelStack",
                            input |-> labels, stack |-> "nil",
                            err |-> "InvalidLabelValue",
                            errv |-> labels[FirstInvalid(labels)]]]
            /\ lastOp' = [op |-> "ValidateLabelStack", c |-> c]
            /\ failures' = failures

\* Validator.recordCorruption (lines 112-116), under the validator's lock, and
\* the return that follows it (lines 64, 72, 105)
recordCorruption(c) ==
    /\ vcall[c].pc = "record"
    /\ corruptionEvents' = Increment(corruptionEvents)
    /\ Returns(c, vcall[c].call, vcall[c].input, vcall[c].stack, vcall[c].err,
               vcall[c].errv)
    /\ vcall' = [vcall EXCEPT ![c] = Idle]
    /\ UNCHANGED <<otherVars, peers, now, heap, events, got, recorded, flapHist, rib, held,
                   ospfVars>>

\* Validator.GetCorruptionCount (lines 118-122)
GetCorruptionCount ==
    /\ lastOp' = [op |-> "GetCorruptionCount", ret |-> corruptionEvents]
    /\ UNCHANGED <<otherVars, peers, now, heap, events, got, recorded, flapHist, rib, held,
                   ospfVars, mplsVars>>

\* Validator.ResetCorruptionCount (lines 124-128)
ResetCorruptionCount ==
    /\ corruptionEvents' = 0
    /\ failures' = [k \in ErrorKinds |-> 0]
    /\ lastOp' = [op |-> "ResetCorruptionCount"]
    /\ UNCHANGED <<otherVars, peers, now, heap, events, got, recorded, flapHist, rib, held,
                   ospfVars, vcall>>

\* the caller of GetEvents overwrites element i of the slice it was given
MutateGot(i) ==
    /\ 1 <= i /\ i <= got.len
    /\ heap[got.arr][got.off + i].Target # "overwritten"
    /\ heap' = [heap EXCEPT ![got.arr][got.off + i] =
                   [@ EXCEPT !.Target = "overwritten", !.Success = ~@]]
    /\ lastOp' = [op |-> "MutateGot", i |-> i]
    /\ UNCHANGED <<otherVars, rib, held, ospfVars, mplsVars, peers, now, events, got, recorded, flapHist>>

(***************************************************************************)
(* Specifications.                                                         *)
(***************************************************************************)
\* guards that keep the counters of the model within its bounds
FlapsBelow(n) == \A a \in DOMAIN peers : peers[a].Established => flapHist[a].total < n
LedgerWithin(n) == Len(recorded') <= n
TimeBelow(d) == now + d <= MaxTime

\* the peer registry on its own
NextRegistry ==
    \/ \E a \in Addrs, asn \in ASNs, err \in BOOLEAN : AddPeer(a, asn, err)
    \/ \E resp \in [DOMAIN peers -> PeerResponses] :
          FlapsBelow(MaxRegistryFlaps) /\ updatePeerStates(resp)
    \/ \E a \in Addrs, listErr \in BOOLEAN, deleteErrs \in SUBSET rib :
          WithdrawAllPrefixes(a, listErr, deleteErrs)

SpecRegistry == Init /\ [][NextRegistry]_vars

\* withdrawals, with a session engine that holds paths
NextWithdraw ==
    \/ \E a \in Addrs, asn \in ASNs : AddPeer(a, asn, FALSE)
    \/ \E resp \in [DOMAIN peers -> EngineResponses] :
          FlapsBelow(MaxWithdrawFlaps) /\ updatePeerStates(resp)
    \/ \E path \in Paths : ReceivePath(path)
    \/ \E a \in Addrs, listErr \in BOOLEAN, deleteErrs \in SUBSET rib :
          WithdrawAllPrefixes(a, listErr, deleteErrs)

SpecWithdraw == Init /\ [][NextWithdraw]_vars

\* the sequences of at most n elements of S
SeqsUpTo(S, n) == UNION {[1..k -> S] : k \in 0..n}

\* the decoded OSPF packets the capture delivers
OSPFTypes == {"Hello", "DatabaseDescription", "LinkStateRequest", "LinkStateUpdate",
              "LinkStateAcknowledgment"}

Packets ==
    {[Type |-> t, RouterID |-> r, HasBody |-> TRUE, LSAs |-> <<>>] :
        t \in OSPFTypes \ {"LinkStateUpdate"}, r \in RouterIDs}
    \cup {[Type |-> t, RouterID |-> r, HasBody |-> FALSE, LSAs |-> <<>>] :
             t \in {"Hello", "LinkStateUpdate"}, r \in RouterIDs}
    \cup {[Type |-> "LinkStateUpdate", RouterID |-> r, HasBody |-> TRUE, LSAs |-> l] :
             r \in RouterIDs, l \in SeqsUpTo(AdvRouters, MaxLSAs)}

\* the parser on its own: ParsePCAP or the capture goroutine, packet by packet
NextTopology == \E pkt \in Packets : processOSPFPacket(pkt)

SpecTopology == Init /\ [][NextTopology]_vars

\* the packets of the snapshot specification: Link State Updates of one router
SnapPackets ==
    {pkt \in Packets : pkt.RouterID = 1 /\ pkt.Type = "LinkStateUpdate" /\ pkt.HasBody}

\* The peer registry and the topology share no state.  A behaviour of this
\* specification works on one of them: the registry with its readers, or the
\* topology with its readers.
RegistryUntouched == DOMAIN peers = {} /\ held = <<>>
TopologyUntouched == DOMAIN topology = {} /\ DOMAIN snap = {}

NextSnapshots ==
    \/ \E a \in Addrs, asn \in ASNs, err \in BOOLEAN :
          TopologyUntouched /\ AddPeer(a, asn, err)
    \/ \E resp \in [DOMAIN peers -> EngineResponses] :
          TopologyUntouched /\ FlapsBelow(MaxSnapFlaps) /\ updatePeerStates(resp)
    \/ \E a \in Addrs : TopologyUntouched /\ WithdrawAllPrefixes(a, FALSE, {})
    \/ \E a \in Addrs : TopologyUntouched /\ GetPeer(a)
    \/ \E order \in Orders(DOMAIN peers) : TopologyUntouched /\ GetAllPeers(order)
    \/ \E i \in 1..Cardinality(Addrs) : MutateHeld(i)
    \/ \E pkt \in SnapPackets : RegistryUntouched /\ processOSPFPacket(pkt)
    \/ \E order \in Orders(DOMAIN topology) : RegistryUntouched /\ GetTopology(order)
    \/ \E r \in RouterIDs, i \in 1..MaxLSAs : MutateSnapLink(r, i)
    \/ \E r \in RouterIDs : DropSnapRouter(r)

SpecSnapshots == Init /\ [][NextSnapshots]_vars

\* label values at both ends of the valid range, and next to them
LabelValues == {15, 16, 1048575, 1048576}

\* the labels of decoded packets
MplsLabels ==
    {[Value |-> v, BoS |-> b, TTL |-> t, TC |-> 0] :
        v \in LabelValues, b \in BOOLEAN, t \in {0, 64}}

\* decoded packets: without an MPLS layer, with one label, and with two
\* labels of which the inner one is the bottom of the stack
MplsPackets ==
    {<<>>} \cup {<<l>> : l \in MplsLabels}
    \cup {<<outer, [Value |-> v, BoS |-> TRUE, TTL |-> 64, TC |-> 0]>> :
             outer \in {l \in MplsLabels : ~l.BoS /\ l.TTL = 64}, v \in {15, 16}}

\* label lists given out of band
LabelLists ==
    SeqsUpTo(LabelValues, 1)
    \cup {<<16, 1048575>>, <<16, 15>>, <<15, 1048576>>, <<1048576, 16>>}

\* the number of failed calls since the last reset
Failed == failures["NoLabelLayer"] + failures["InvalidLabelValue"]
          + failures["TTLExpired"] + failures["EmptyStack"]

\* the validator and its callers
NextValidator ==
    \/ \E c \in Callers, packet \in MplsPackets :
          Failed < MaxFailures /\ ValidatePacketCall(c, packet)
    \/ \E c \in Callers :
          /\ vcall[c].pc = "walk"
          /\ Len(vcall[c].stack.Labels) < MaxWalk
          /\ ValidatePacketLabel(c)
    \/ \E c \in Callers, labels \in LabelLists :
          Failed < MaxFailures /\ ValidateLabelStack(c, labels)
    \/ \E c \in Callers : recordCorruption(c)
    \/ GetCorruptionCount
    \/ ResetCorruptionCount

SpecValidator == Init /\ [][NextValidator]_vars

\* a peer that flapped n times before time t and is down since: what n rounds
\* of an Established and a non-established poll leave of a new peer
DownPeer(address, n, t) ==
    IF n = 0 THEN NewPeerState(address, 65001)
    ELSE [NewPeerState(address, 65001) EXCEPT !.State = "IDLE", !.PrefixCount = 1,
                                               !.FlapCount = n, !.LastFlapTime = t]

\* the registry after Initialize added the configured peers (lines 342-351);
\* 10.0.0.2 is a neighbour that is down for good and has flapped n times
InitEngine ==
    \E n \in {0, FlapThreshold, FlapThreshold + 1} :
        /\ peers = [a \in Addrs |->
                      IF a = "10.0.0.1" THEN NewPeerState(a, 65001) ELSE DownPeer(a, n, 100)]
        /\ now = 100
        /\ heap = [i \in {} |-> <<>>]
        /\ events = EmptySlice
        /\ got = EmptySlice
        /\ recorded = <<>>
        /\ flapHist = [a \in Addrs |->
                         IF a = "10.0.0.1" \/ n = 0 THEN [total |-> 0, first |-> 0]
                         ELSE [total |-> n, first |-> 100]]
        /\ lastOp = [op |-> "init"]
        /\ InitRest

\* the answers of a refresh cycle: 10.0.0.2 stays down
EngineAnswers ==
    {r \in [Addrs -> EngineResponses] : r["10.0.0.2"].SessionState = "IDLE"}

\* the refresh goroutine and the evaluation goroutine
NextEngine ==
    \/ \E d \in TickSteps : TimeBelow(d) /\ Tick(d)
    \/ \E resp \in EngineAnswers :
          FlapsBelow(MaxFlapCount) /\ updatePeerStates(resp)
    \/ \E order \in Orders(DOMAIN peers), failing \in SUBSET Addrs,
          deleteErrs \in SUBSET rib :
          checkAndRemediate(order, failing, deleteErrs) /\ LedgerWithin(MaxLedger)

SpecEngine == InitEngine /\ [][NextEngine]_vars

\* the operator's calls, with the refresh goroutine
NextManual ==
    \/ \E a \in Addrs, asn \in ASNs : AddPeer(a, asn, FALSE)
    \/ \E resp \in [DOMAIN peers -> EngineResponses] :
          FlapsBelow(MaxManualFlaps) /\ updatePeerStates(resp)
    \/ \E peer \in Addrs \cup {""}, prefix \in Prefixes \cup {""}, reason \in Reasons,
          listErr \in BOOLEAN, deleteErrs \in SUBSET rib :
          RemediateManual(peer, prefix, reason, listErr, deleteErrs)
          /\ LedgerWithin(MaxLedger)

SpecManual == Init /\ [][NextManual]_vars

\* the arguments of GetEvents
Limits == {-1, 0, 2, MaxEvents}

\* the numbers of events recorded earlier: up to the ledger's limit, and as
\* many as fill the backing array the ledger then has
Fills == {MaxEvents - 1, MaxEvents, GrowCap(GrowCap(GrowCap(256)))}

\* the events a process recorded before: one a second, from second 1 on
Earlier(n) == [i \in 1..n |-> OSPFEvent("eth0", i)]

\* the capacity of the ledger's array once appends from capacity c took n events
RECURSIVE CapFor(_, _)
CapFor(c, n) == IF c >= n THEN c ELSE CapFor(GrowCap(c), n)

\* a ledger that already took n events: what n recordEvent calls leave behind,
\* as long as the array that was allocated last still has room for them
InitLedger ==
    \E n \in Fills :
        /\ peers = [a \in {} |-> 0]
        /\ now = 2 * MaxEvents
        /\ heap = [i \in {1} |-> Earlier(n) \o Zeros(CapFor(0, n) - n)]
        /\ events = TrimEvents([arr |-> 1, off |-> 0, len |-> n])
        /\ got = EmptySlice
        /\ recorded = Earlier(n)
        /\ flapHist = [a \in Addrs |-> [total |-> 0, first |-> 0]]
        /\ lastOp = [op |-> "init"]
        /\ InitRest

\* at most n events are recorded at one value of the clock
RecordedNowBelow(n) ==
    Cardinality({i \in 1..Len(recorded) : recorded[i].Timestamp = now}) < n

\* the ledger and its readers
NextLedger ==
    \/ \E prefix \in Prefixes : RecordedNowBelow(MaxExtra) /\ RemediateRPKI(prefix)
    \/ \E i \in Interfaces : RecordedNowBelow(MaxExtra) /\ RemediateOSPFAdjacency(i)
    \/ \E reason \in Reasons :
          RecordedNowBelow(MaxExtra) /\ RemediateManual("", "", reason, FALSE, {})
    \/ \E limit \in Limits : GetEvents(limit)
    \/ \E i \in {1, got.len} : MutateGot(i)

SpecLedger == InitLedger /\ [][NextLedger]_vars

(***************************************************************************)
(* Properties.                                                             *)
(***************************************************************************)
\* the events the step recorded
NewEvents == SubSeq(recorded', Len(recorded) + 1, Len(recorded'))

\* the events of a sequence that the evaluation cycle recorded for a peer
FlapEventsFor(evs, a) ==
    SelectSeq(evs, LAMBDA e : e.Target = a /\ e.Action = "withdraw_all_prefixes")

\* C1: a refresh cycle adds exactly one to the flap count of a peer that was
\* Established before the poll and that the poll reports not Established, and
\* leaves the flap count of every other peer as it was, so that repeated
\* polls of a non-established peer add nothing.
C1_FlapOncePerTransition ==
    [][lastOp'.op = "updatePeerStates" =>
          \A a \in DOMAIN peers :
              peers'[a].FlapCount =
                  peers[a].FlapCount
                  + (IF peers[a].Established /\ a \in lastOp'.down THEN 1 ELSE 0)]_vars

\* C1 witness: one cycle in which a peer that had flapped before goes down
\* again and another peer, down already with one flap counted, is polled down
\* once more and still has one flap.
C1_Witness ==
    /\ lastOp.op = "updatePeerStates"
    /\ \E a, b \in DOMAIN peers :
          /\ a \in lastOp.was /\ a \in lastOp.down /\ peers[a].FlapCount = 2
          /\ b \notin lastOp.was /\ b \in lastOp.down /\ peers[b].FlapCount = 1
          /\ flapHist[b].total = 1

\* C2: every entry of the registry is the one PeerState of its address, and
\* no call makes the flap count of an address smaller, except a successful
\* WithdrawAllPrefixes for that address, which makes it zero.
C2_FlapCountNeverDecreases ==
    [][\A a \in DOMAIN peers :
          /\ a \in DOMAIN peers'
          /\ peers'[a].Address = a
          /\ \/ peers'[a].FlapCount >= peers[a].FlapCount
             \/ /\ lastOp'.op = "WithdrawAllPrefixes"
                /\ lastOp'.address = a
                /\ lastOp'.err = "nil"
                /\ peers'[a].FlapCount = 0]_vars

\* the events of a sequence with a given target
EventsFor(evs, a) == SelectSeq(evs, LAMBDA e : e.Target = a)

\* the events of a sequence with success = true
Successes(evs) == SelectSeq(evs, LAMBDA e : e.Success)

\* the peer flapped exactly once more than the threshold, all within one window
FlappedWithinWindow(a) ==
    /\ flapHist[a].total = FlapThreshold + 1
    /\ peers[a].LastFlapTime - flapHist[a].first <= FlapWindowSec

\* the condition of section 4.4 on the state before an evaluation cycle
OverThreshold(a) ==
    /\ peers[a].FlapCount > FlapThreshold
    /\ now - peers[a].LastFlapTime < FlapWindowSec

\* C3 as stated: a peer that flapped 4 times within 300 seconds has at most
\* one flap remediation event, that event has success = true, and once it is
\* there the flap count is 0.
C3_OneSuccessfulEvent ==
    \A a \in DOMAIN peers :
        FlappedWithinWindow(a) =>
            LET fe == FlapEventsFor(recorded, a)
            IN  /\ Len(fe) <= 1
                /\ Len(fe) = 1 => fe[1].Success /\ peers[a].FlapCount = 0

\* the flap events of a peer that flapped 4 times within 300 seconds: failed
\* ones, then at most one successful one, which goes with a flap count of 0
C3_FailuresThenOneSuccess(a) ==
    LET fe == FlapEventsFor(recorded, a)
    IN  /\ Len(Successes(fe)) <= 1
        /\ Len(Successes(fe)) = 1 => fe[Len(fe)].Success /\ peers[a].FlapCount = 0
        /\ Len(Successes(fe)) = 0 => peers[a].FlapCount = FlapThreshold + 1

\* C3 amended: for a peer that flapped 4 times within 300 seconds, a cycle
\* that runs less than 300 seconds after the last flap and finds the count at
\* 4 records exactly one flap event; if the withdrawal succeeds the event has
\* success = true and the count becomes 0, if ListPath fails the event has
\* success = false and the count stays 4.  Any other cycle records nothing for
\* the peer and leaves its count.  So the peer's flap events are failed ones
\* followed by at most one successful one.
C3_OneSuccessfulEventIfWithdrawn ==
    [][/\ lastOp'.op = "checkAndRemediate" =>
            \A a \in DOMAIN peers :
                FlappedWithinWindow(a) =>
                    LET new == FlapEventsFor(NewEvents, a)
                    IN  IF peers[a].FlapCount = FlapThreshold + 1
                           /\ now - peers[a].LastFlapTime < FlapWindowSec
                        THEN /\ Len(new) = 1
                             /\ new[1].Success = (a \notin lastOp'.failing)
                             /\ peers'[a].FlapCount =
                                   IF a \in lastOp'.failing THEN FlapThreshold + 1 ELSE 0
                        ELSE /\ new = <<>>
                             /\ peers'[a].FlapCount = peers[a].FlapCount
       /\ \A a \in DOMAIN peers' :
             FlappedWithinWindow(a)' => C3_FailuresThenOneSuccess(a)']_vars

\* C3 witness: the peer flapped 4 times within 300 seconds, a cycle withdrew
\* its prefixes, and a later cycle, at a later time, has added nothing.
C3_Witness ==
    /\ lastOp.op = "checkAndRemediate"
    /\ FlappedWithinWindow("10.0.0.1")
    /\ peers["10.0.0.1"].FlapCount = 0
    /\ Len(FlapEventsFor(Ledger, "10.0.0.1")) = 1
    /\ FlapEventsFor(Ledger, "10.0.0.1")[1].Success
    /\ FlapEventsFor(Ledger, "10.0.0.1")[1].Timestamp < now

\* C4: a peer whose 4 flaps are spread over 400 seconds or more has no flap
\* remediation event.
C4_NoEventWhenSpread ==
    \A a \in DOMAIN peers :
        /\ flapHist[a].total = FlapThreshold + 1
        /\ peers[a].LastFlapTime - flapHist[a].first >= 400
        => FlapEventsFor(recorded, a) = <<>>

\* C5: an evaluation cycle remediates a peer (records an event for it) if and
\* only if, before the cycle, its flap count is greater than the threshold and
\* its last flap is less than one window old.
C5_RemediatedIffOverThreshold ==
    [][lastOp'.op = "checkAndRemediate" =>
          \A a \in DOMAIN peers :
              (EventsFor(NewEvents, a) # <<>>) <=> OverThreshold(a)]_vars

\* C5 witness: a cycle has just remediated one peer and left alone another
\* whose flap count equals the threshold and whose last flap is recent.
C5_Witness ==
    /\ lastOp.op = "checkAndRemediate"
    /\ \E a, b \in DOMAIN peers :
          /\ Len(Ledger) > 0 /\ Ledger[Len(Ledger)].Target = a
          /\ Ledger[Len(Ledger)].Timestamp = now
          /\ peers[b].FlapCount = FlapThreshold
          /\ now - peers[b].LastFlapTime < FlapWindowSec
          /\ EventsFor(recorded, b) = <<>>

\* the events a cycle records are one per peer over the threshold, of the
\* given type, with success equal to the outcome of the withdrawal
FlapEventPerRemediation(type) ==
    lastOp'.op = "checkAndRemediate" =>
        /\ Len(NewEvents) = Cardinality({a \in DOMAIN peers : OverThreshold(a)})
        /\ \A a \in DOMAIN peers :
              OverThreshold(a) =>
                  LET new == EventsFor(NewEvents, a)
                  IN  /\ Len(new) = 1
                      /\ new[1].Type = type
                      /\ new[1].Reason = "flap"
                      /\ new[1].Action = "withdraw_all_prefixes"
                      /\ new[1].Success = (a \notin lastOp'.failing)

\* C6 as stated: each flap remediation of a cycle appends exactly one event
\* with type "flap", reason "flap", action "withdraw_all_prefixes", the peer
\* as target and success equal to the outcome of WithdrawAllPrefixes.
C6_FlapEventTypeFlap == [][FlapEventPerRemediation("flap")]_vars

\* C6 amended: the same, with the type "bgp_flap" that remediateFlap writes.
C6_FlapEventTypeBgpFlap == [][FlapEventPerRemediation("bgp_flap")]_vars

\* C6 witness: one cycle remediated both peers; the withdrawal failed for one
\* and succeeded for the other.
C6_Witness ==
    /\ lastOp.op = "checkAndRemediate"
    /\ Len(Ledger) = 2
    /\ Ledger[1].Timestamp = now /\ Ledger[2].Timestamp = now
    /\ Ledger[1].Target # Ledger[2].Target
    /\ Ledger[1].Success # Ledger[2].Success
    /\ \A i \in 1..2 : Ledger[i].Success <=> peers[Ledger[i].Target].FlapCount = 0

\* the last n elements of a sequence
LastN(seq, n) == SubSeq(seq, Len(seq) - n + 1, Len(seq))

\* C7: the ledger never holds more than 1,000 events, and it is the last
\* min(n, 1000) of the n events recorded so far, in the order they were
\* recorded.
C7_LedgerIsMostRecentThousand ==
    /\ Len(Ledger) <= 1000
    /\ Ledger = LastN(recorded, Min(Len(recorded), 1000))

\* C7 witness: the 1,001st event has just been recorded; the ledger holds
\* 1,000 events and starts with the second event ever recorded.
C7_Witness ==
    /\ lastOp.op \in {"RemediateRPKI", "RemediateOSPFAdjacency", "RemediateManual"}
    /\ Len(recorded) = 1001
    /\ Len(Ledger) = 1000
    /\ Ledger[1] = recorded[2]
    /\ Ledger[1000] = recorded[1001]

\* C8: GetEvents(limit) returns the last min(limit, count) events of the
\* ledger in ledger order when limit > 0 and at most the count, and all of them
\* when limit <= 0 or limit is greater than the count, and leaves the ledger as
\* it is; overwriting an element of the result does not change the ledger, and
\* recording an event does not change a result returned before.
C8_GetEventsCopiesTheTail ==
    [][/\ lastOp'.op = "GetEvents" =>
            /\ View(heap', got') =
                  IF lastOp'.limit > 0 /\ lastOp'.limit <= Len(Ledger)
                  THEN LastN(Ledger, lastOp'.limit)
                  ELSE Ledger
            /\ View(heap', events') = Ledger
       /\ lastOp'.op = "MutateGot" =>
            /\ View(heap', events') = Ledger
            /\ View(heap', got') # View(heap, got)
       /\ lastOp'.op \in {"RemediateRPKI", "RemediateOSPFAdjacency", "RemediateManual"} =>
            /\ View(heap', got') = View(heap, got)
            /\ View(heap', events') # Ledger]_vars

\* C8 witness: the caller holds the 2 newest of 1,000 events, has overwritten
\* the newer one, and the ledger still ends with the event as recorded.
C8_Witness ==
    /\ lastOp.op = "MutateGot"
    /\ lastOp.i = 2
    /\ got.len = 2
    /\ Len(Ledger) = 1000
    /\ View(heap, got)[1] = Ledger[999]
    /\ View(heap, got)[2].Target = "overwritten"
    /\ Ledger[1000] = recorded[Len(recorded)]

\* the withdrawal of RemediateManual did not fail: there was none, or the peer
\* is tracked and ListPath succeeded
WithdrawalOK == lastOp'.peer = "" \/ (lastOp'.peer \in DOMAIN peers /\ ~lastOp'.listErr)

\* the manual event that ends a RemediateManual call
IsManualEvent(e) ==
    /\ e.Type = "manual"
    /\ e.Target = lastOp'.peer
    /\ e.Reason = lastOp'.reason
    /\ e.Success = WithdrawalOK

\* C9 as stated: every RemediateManual call appends exactly one event, whose
\* success flag is the AND of the successes of the withdrawal and of the RPKI
\* remediation, as far as they were performed.
C9_ManualAppendsOneEvent ==
    [][lastOp'.op = "RemediateManual" =>
          /\ Len(NewEvents) = 1
          /\ IsManualEvent(NewEvents[1])]_vars

\* C9 amended: every RemediateManual call appends exactly one event of type
\* manual, as the last one, with success = true iff the withdrawal did not
\* fail (the RPKI remediation cannot fail); when the prefix is not empty and the
\* withdrawal did not fail, the RPKI remediation first appends its own
\* rpki_invalid event for the prefix, with success = true, so that the ledger
\* takes two events.
C9_ManualAppendsOneManualEvent ==
    [][lastOp'.op = "RemediateManual" =>
          /\ IsManualEvent(NewEvents[Len(NewEvents)])
          /\ IF lastOp'.prefix # "" /\ WithdrawalOK
             THEN /\ Len(NewEvents) = 2
                  /\ NewEvents[1].Type = "rpki_invalid"
                  /\ NewEvents[1].Target = lastOp'.prefix
                  /\ NewEvents[1].Success
             ELSE Len(NewEvents) = 1
          /\ (lastOp'.err = "nil") <=> WithdrawalOK]_vars

\* C9 witness: a call with a tracked peer and a prefix has left the
\* rpki_invalid event and then the manual event, both with success = true.
C9_Witness ==
    /\ lastOp.op = "RemediateManual"
    /\ lastOp.peer \in DOMAIN peers
    /\ lastOp.prefix # ""
    /\ lastOp.err = "nil"
    /\ Len(Ledger) = 2
    /\ Ledger[1].Type = "rpki_invalid" /\ Ledger[1].Success
    /\ Ledger[2].Type = "manual" /\ Ledger[2].Success

\* C10: RemediateManual(p, "", r) for a tracked peer p, with ListPath
\* succeeding, returns no error, leaves p's flap count at 0 and makes the
\* ledger longer by exactly one event: type manual, target p, reason r,
\* success true.
C10_ManualPeerOnly ==
    [][/\ lastOp'.op = "RemediateManual"
       /\ lastOp'.peer \in DOMAIN peers
       /\ lastOp'.prefix = ""
       /\ ~lastOp'.listErr
       => /\ lastOp'.err = "nil"
          /\ peers'[lastOp'.peer].FlapCount = 0
          /\ Len(View(heap', events')) = Len(Ledger) + 1
          /\ LET e == View(heap', events')[Len(Ledger) + 1]
             IN  /\ e.Type = "manual"
                 /\ e.Target = lastOp'.peer
                 /\ e.Reason = lastOp'.reason
                 /\ e.Success
          /\ \A i \in 1..Len(Ledger) : View(heap', events')[i] = Ledger[i]]_vars

\* C10 witness: the call was made for a peer that had flapped; its count is 0
\* and the manual event is the last of the ledger.
C10_Witness ==
    /\ lastOp.op = "RemediateManual"
    /\ lastOp.peer \in DOMAIN peers
    /\ lastOp.prefix = ""
    /\ lastOp.err = "nil"
    /\ peers[lastOp.peer].LastFlapTime # 0
    /\ peers[lastOp.peer].FlapCount = 0
    /\ Ledger[Len(Ledger)].Type = "manual"
    /\ Ledger[Len(Ledger)].Target = lastOp.peer
    /\ Ledger[Len(Ledger)].Success

\* C11: a RemediateManual call with a peer given whose withdrawal fails (the
\* peer is not tracked, or ListPath fails) records exactly one event, a manual
\* event for the peer with success = false, returns an error, records no
\* rpki_invalid event even when a prefix is given, and leaves the registry and
\* the session engine's table as they were.
C11_ManualAbortsOnFailedWithdrawal ==
    [][/\ lastOp'.op = "RemediateManual"
       /\ lastOp'.peer # ""
       /\ (lastOp'.peer \notin DOMAIN peers \/ lastOp'.listErr)
       => /\ lastOp'.err # "nil"
          /\ Len(NewEvents) = 1
          /\ NewEvents[1].Type = "manual"
          /\ NewEvents[1].Target = lastOp'.peer
          /\ ~NewEvents[1].Success
          /\ peers' = peers
          /\ rib' = rib]_vars

\* C11 witness: a call for an untracked peer with a prefix failed while a
\* tracked peer had a flap counted; the ledger holds the one failed manual event.
C11_Witness ==
    /\ lastOp.op = "RemediateManual"
    /\ lastOp.peer # "" /\ lastOp.peer \notin DOMAIN peers
    /\ lastOp.prefix # ""
    /\ lastOp.err # "nil"
    /\ \E a \in DOMAIN peers : peers[a].FlapCount = 1
    /\ Len(Ledger) = 1
    /\ Ledger[1].Type = "manual" /\ ~Ledger[1].Success

\* C12: WithdrawAllPrefixes(address) fails exactly when the address is not
\* tracked or ListPath fails; a failed call leaves every entry of the registry,
\* its key set and the session engine's table as they were, and a successful
\* call sets the flap count of the peer to zero.
C12_ResetOnlyOnSuccess ==
    [][lastOp'.op = "WithdrawAllPrefixes" =>
          IF lastOp'.address \notin DOMAIN peers \/ lastOp'.listErr
          THEN lastOp'.err # "nil" /\ peers' = peers /\ rib' = rib
          ELSE /\ lastOp'.err = "nil"
               /\ DOMAIN peers' = DOMAIN peers
               /\ peers'[lastOp'.address].FlapCount = 0]_vars

\* C12 witness: ListPath failed for a tracked peer with a flap counted and a
\* path in the table; the count and the path are still there.
C12_Witness ==
    /\ lastOp.op = "WithdrawAllPrefixes"
    /\ lastOp.address \in DOMAIN peers
    /\ lastOp.listErr
    /\ lastOp.err = "failed to list paths"
    /\ peers[lastOp.address].FlapCount = 1
    /\ rib # {}

\* C13: when DeletePath fails for a path during WithdrawAllPrefixes for a
\* tracked peer, the call returns an error and the flap count of the peer is
\* not reset.
C13_DeleteErrorPropagates ==
    [][/\ lastOp'.op = "WithdrawAllPrefixes"
       /\ lastOp'.address \in DOMAIN peers
       /\ ~lastOp'.listErr
       /\ lastOp'.deleteErrs # {}
       => /\ lastOp'.err # "nil"
          /\ peers'[lastOp'.address].FlapCount = peers[lastOp'.address].FlapCount]_vars

\* C14: AddPeer for an address that is not tracked creates its entry, "Idle",
\* not established, flap count 0; AddPeer for a tracked address leaves the
\* entry of that address as it was.
C14_AddPeerKeepsExistingEntry ==
    [][lastOp'.op = "AddPeer" =>
          IF lastOp'.address \in DOMAIN peers
          THEN peers'[lastOp'.address] = peers[lastOp'.address]
          ELSE /\ peers'[lastOp'.address].State = "Idle"
               /\ ~peers'[lastOp'.address].Established
               /\ peers'[lastOp'.address].FlapCount = 0]_vars

\* the calls that write the peer registry
RegistryWrites == {"AddPeer", "updatePeerStates", "WithdrawAllPrefixes"}

\* C15: what GetPeer, GetAllPeers and GetTopology hand out equals the state
\* at the call and is independent of it afterwards: a caller writing a field
\* of a PeerState it was given, writing a link of a Topology it was given or
\* deleting a link set from it leaves the registry and the topology, and so
\* the result of every later read, as they were; a registry write or a
\* processed packet leaves what was handed out before as it was.
C15_ReadsAreIndependentCopies ==
    [][/\ lastOp'.op = "GetPeer" /\ lastOp'.address \in DOMAIN peers
          => Deref(peers', held'[1]) = peers[lastOp'.address]
       /\ lastOp'.op = "GetAllPeers"
          => /\ Len(held') = Cardinality(DOMAIN peers)
             /\ {Deref(peers', held'[i]) : i \in 1..Len(held')}
                  = {peers[a] : a \in DOMAIN peers}
       /\ lastOp'.op = "GetTopology"
          => Links(linkHeap', snap') = Links(linkHeap, topology)
       /\ lastOp'.op = "MutateHeld" => peers' = peers
       /\ lastOp'.op \in {"MutateSnapLink", "DropSnapRouter"}
          => Links(linkHeap', topology') = Links(linkHeap, topology)
       /\ lastOp'.op \in RegistryWrites
          => /\ Len(held') = Len(held)
             /\ \A i \in 1..Len(held) : Deref(peers', held'[i]) = Deref(peers, held[i])
       /\ lastOp'.op = "processOSPFPacket"
          => Links(linkHeap', snap') = Links(linkHeap, snap)]_vars

\* C15 witness: a caller of GetAllPeers has overwritten both PeerStates it was
\* given, one of a peer that is Established in the registry; a refresh cycle
\* then counted a flap for that peer, and the caller still holds what it wrote.
C15_Witness ==
    /\ lastOp.op = "updatePeerStates"
    /\ Len(held) = 2
    /\ \A i \in 1..2 : Deref(peers, held[i]).State = "overwritten"
    /\ \E i \in 1..2 :
          /\ ~Deref(peers, held[i]).Established
          /\ Deref(peers, held[i]).FlapCount = 1
          /\ peers[Deref(peers, held[i]).Address].FlapCount = 1
          /\ peers[Deref(peers, held[i]).Address].State = "IDLE"

\* the number of links of router r to remote router a
LinksTo(r, a) ==
    Cardinality({i \in 1..topology[r].len :
                    View(linkHeap, topology[r])[i].RemoteRouterID = a})

\* C16: processing a packet that was just processed once more leaves every
\* router's links as they are; and after a Link State Update for a router that
\* carries LSAs of two different advertising routers, the router has one link
\* to each of the two.
C16_MergeIsIdempotent ==
    [][lastOp'.op = "processOSPFPacket" =>
          LET pkt   == lastOp'.pkt
              again == ProcessOf(linkHeap', topology', pkt)
          IN  /\ Links(again.heap, again.routers) = Links(linkHeap', topology')
              /\ pkt.Type = "LinkStateUpdate" /\ pkt.HasBody
                 => \A a \in Range(pkt.LSAs) :
                       Cardinality({i \in 1..topology'[pkt.RouterID].len :
                           View(linkHeap', topology'[pkt.RouterID])[i].RemoteRouterID = a}) = 1]_vars

\* C16 witness: the update with LSAs of advertising routers 2 and 3 was
\* processed for router 1, which had the link to 2 already; it has two links.
C16_Witness ==
    /\ lastOp.op = "processOSPFPacket"
    /\ lastOp.pkt.RouterID = 1
    /\ lastOp.pkt.LSAs = <<3, 2>>
    /\ Links(linkHeap, topology)[1] = <<NewLink(2), NewLink(3)>>

\* C17: no router has two links with the same remote router identifier.
C17_NoDuplicateLinks ==
    \A r \in DOMAIN topology :
        \A i, j \in 1..topology[r].len :
            View(linkHeap, topology[r])[i].RemoteRouterID
              = View(linkHeap, topology[r])[j].RemoteRouterID => i = j

\* C17 witness: an update carried the same advertising router twice, for a
\* router that had a link to another remote router; the router has one link
\* to each.
C17_Witness ==
    /\ lastOp.op = "processOSPFPacket"
    /\ lastOp.pkt.LSAs = <<3, 3>>
    /\ topology[lastOp.pkt.RouterID].len = 2
    /\ LinksTo(lastOp.pkt.RouterID, 3) = 1
    /\ LinksTo(lastOp.pkt.RouterID, 2) = 1

\* C18: after a packet of one of the five types that carries its body, the
\* topology has an entry for the router the packet came from.
C18_RouterEntryAfterAnyPacket ==
    [][/\ lastOp'.op = "processOSPFPacket"
       /\ lastOp'.pkt.Type \in OSPFTypes
       /\ lastOp'.pkt.HasBody
       => lastOp'.pkt.RouterID \in DOMAIN topology']_vars

\* the steps of a validation call before its recordCorruption call
ValidationSteps == {"ValidatePacketCall", "ValidatePacketLabel", "ValidateLabelStack"}

C20_EveryFailureCounts ==
    [][/\ lastOp'.op = "return" =>
             corruptionEvents' = corruptionEvents + (IF lastOp'.err # "nil" THEN 1 ELSE 0)
       /\ corruptionEvents' = Failed']_vars

\* C20 amended: a validation call that returns InvalidLabelValue or
\* TTLExpired has added exactly one to the corruption counter, however many
\* of its labels are invalid; a call that returns no error, EmptyStack or
\* NoLabelLayer has not changed it; only a reset, which sets it to zero,
\* changes it otherwise; and with calls of two callers interleaved the counter
\* is the number of calls that returned InvalidLabelValue or TTLExpired since
\* the last reset.
C20_LabelFailuresCount ==
    [][/\ lastOp'.op = "return" =>
             corruptionEvents' = corruptionEvents
                 + (IF lastOp'.err \in {"InvalidLabelValue", "TTLExpired"} THEN 1 ELSE 0)
       /\ lastOp'.op = "ResetCorruptionCount" => corruptionEvents' = 0
       /\ lastOp'.op \notin {"return", "ResetCorruptionCount"}
             => corruptionEvents' = corruptionEvents
       /\ corruptionEvents' = failures'["InvalidLabelValue"] + failures'["TTLExpired"]]_vars

\* C20 witness: a ValidateLabelStack call for two labels that are both out of
\* range has returned and counted once, while the other caller is between
\* finding an expired TTL and counting it; an earlier call met an empty list.
C20_Witness ==
    /\ lastOp.op = "return"
    /\ lastOp.call = "ValidateLabelStack"
    /\ lastOp.input = <<15, 1048576>>
    /\ lastOp.bumps = 1
    /\ corruptionEvents = 1
    /\ failures["EmptyStack"] = 1
    /\ \E c \in Callers : vcall[c].pc = "record" /\ vcall[c].err = "TTLExpired"

\* C21 as stated: a ValidatePacket call walks the labels of the packet from
\* the outermost inwards, each label at most once: while the call is in its
\* loop the labels on its stack are the labels of the packet in front of the
\* one it looks at next, so there are fewer of them than the packet has, and
\* the stack the call returns holds a label of the packet at most once.
C21_WalksEachLabelOnce ==
    /\ \A c \in Callers :
          vcall[c].pc = "walk" =>
             /\ Len(vcall[c].stack.Labels) < Len(vcall[c].input)
             /\ vcall[c].stack.Labels
                   = SubSeq(vcall[c].input, 1, Len(vcall[c].stack.Labels))
    /\ lastOp.op = "return" /\ lastOp.call = "ValidatePacket" /\ lastOp.stack # "nil"
          => Len(lastOp.stack.Labels) <= Len(lastOp.input)

\* the routers of a topology and, for each, its links as a set
LinkSets(h, routers) == [r \in DOMAIN routers |-> Range(View(h, routers[r]))]

\* the packets of type Link State Update
UpdatePackets == {pkt \in Packets : pkt.Type = "LinkStateUpdate"}

\* the topology after packet p and then packet q, from the current one
Merged(p, q) ==
    LET first  == ProcessOf(linkHeap, topology, p)
        second == ProcessOf(first.heap, first.routers, q)
    IN  second

\* of two packets each comes before the other or after it: a pair of updates
\* is compared once, not once for each way of naming its two packets
InOrder(p, q) ==
    \/ p.RouterID < q.RouterID
    \/ p.RouterID = q.RouterID /\ Len(p.LSAs) <= Len(q.LSAs)

\* C26: from any topology the parser can have built, processing two Link State
\* Updates (for the same router or for two) in one order and in the other
\* gives the same routers and, for each router, the same set of links; the
\* order of the links within a router may differ.
C26_MergesCommute ==
    \A p \in UpdatePackets :
        LET first == ProcessOf(linkHeap, topology, p)
        IN  \A q \in UpdatePackets :
               InOrder(p, q) =>
                  LET pq == ProcessOf(first.heap, first.routers, q)
                      qp == Merged(q, p)
                  IN  LinkSets(pq.heap, pq.routers) = LinkSets(qp.heap, qp.routers)

\* C26 witness: router 1 got its link to 3 first and its link to 2 by the last
\* update, so its links are in that order; router 2 has no links yet, and two
\* updates for it leave its links in one order or the other.
C26_Witness ==
    /\ lastOp.op = "processOSPFPacket"
    /\ lastOp.pkt.RouterID = 1
    /\ lastOp.pkt.LSAs = <<2>>
    /\ Links(linkHeap, topology)[1] = <<NewLink(3), NewLink(2)>>
    /\ \E p, q \in UpdatePackets :
          /\ p.RouterID = 2 /\ q.RouterID = 2 /\ p.LSAs = <<3>> /\ q.LSAs = <<2>>
          /\ Links(Merged(p, q).heap, Merged(p, q).routers)
               # Links(Merged(q, p).heap, Merged(q, p).routers)

\* C27 as stated: WithdrawAllPrefixes(address) leaves the paths of every other
\* neighbour in the global table of the session engine.
C27_WithdrawsOnlyThatPeer ==
    [][lastOp'.op = "WithdrawAllPrefixes" =>
          \A path \in rib : path.Neighbor # lastOp'.address => path \in rib']_vars

\* C30: when the session engine rejects the peer, AddPeer returns the error
\* and the registry nevertheless holds an entry for the address, in state
\* "Idle" and not established, with no flaps.  No operation takes an entry out
\* of the registry; GetPeer returns the entry of every tracked address,
\* GetAllPeers the entries of all of them, and a refresh cycle polls the
\* session engine for every tracked address.
C30_RejectedPeerIsTracked ==
    [][/\ lastOp'.op = "AddPeer" /\ lastOp'.err
          => /\ lastOp'.address \in DOMAIN peers'
             /\ \E asn \in ASNs :
                   peers'[lastOp'.address] = NewPeerState(lastOp'.address, asn)
             /\ peers'[lastOp'.address].State = "Idle"
             /\ ~peers'[lastOp'.address].Established
       /\ DOMAIN peers \subseteq DOMAIN peers'
       /\ lastOp'.op = "GetPeer" /\ lastOp'.address \in DOMAIN peers
          => lastOp'.ret = <<CopyPeer(peers[lastOp'.address])>>
       /\ lastOp'.op = "GetAllPeers"
          => /\ Len(lastOp'.ret) = Cardinality(DOMAIN peers)
             /\ Range(lastOp'.ret) = {CopyPeer(peers[a]) : a \in DOMAIN peers}
       /\ lastOp'.op = "updatePeerStates" => lastOp'.polled = DOMAIN peers]_vars

\* C30 witness: the engine has just rejected a peer; its address is tracked as
\* "Idle" next to a peer that is Established, and a reader holds copies of
\* the entries read before.
C30_Witness ==
    /\ lastOp.op = "AddPeer"
    /\ lastOp.err
    /\ lastOp.address \in DOMAIN peers
    /\ peers[lastOp.address].State = "Idle"
    /\ \E a \in DOMAIN peers : a # lastOp.address /\ peers[a].Established
    /\ held # <<>>

(***************************************************************************)
(* The logger: producers, the consumer goroutine and Close.  The channel   *)
(* starts with the events of as many LogEvent calls as it has room for, or *)
(* one less, none of them received yet.                                    *)
(***************************************************************************)
LogFills == {LogCapacity - 1, LogCapacity}

InitLogFilled ==
    \E n \in LogFills :
        /\ peers = [a \in {} |-> 0]
        /\ now = 100
        /\ heap = [i \in {} |-> <<>>]
        /\ events = EmptySlice
        /\ got = EmptySlice
        /\ recorded = <<>>
        /\ flapHist = [a \in Addrs |-> [total |-> 0, first |-> 0]]
        /\ lastOp = [op |-> "init"]
        /\ InitParsers
        /\ logEvents = [i \in 1..n |-> LogRecord(i, 100)]
        /\ logClosed = FALSE
        /\ published = n
        /\ delivered = <<>>
        /\ InitGoroutines

NextLogger ==
    \/ published < LogCapacity + MaxLogExtra /\ LogEvent
    \/ Len(delivered) < MaxDelivered /\ processEvents
    \/ ~logClosed /\ LoggerClose

SpecLogger == InitLogFilled /\ [][NextLogger]_vars

\* C24: LogEvent can always be called and returns in one step, whatever the
\* channel holds.  On an open channel with room it puts its event behind the
\* buffered ones; on a full channel it changes nothing, i.e. the new event is
\* dropped and the buffered ones stay, in their order.  The channel never holds
\* more than its capacity of 1,000.  The consumer receives the oldest buffered
\* event; the messages it has received followed by the ones still buffered
\* are in the order of their LogEvent calls, none of them twice.
C24_PublishNeverBlocks ==
    [][/\ ENABLED LogEvent
       /\ Len(logEvents') <= LogCapacity
       /\ lastOp'.op = "LogEvent" /\ ~logClosed =>
             IF Len(logEvents) < LogCapacity
             THEN /\ logEvents' = Append(logEvents, LogRecord(lastOp'.message, now))
                  /\ ~lastOp'.dropped
             ELSE /\ logEvents' = logEvents
                  /\ lastOp'.dropped
       /\ lastOp'.op = "LogEvent" => delivered' = delivered
       /\ lastOp'.op = "processEvents" =>
             /\ lastOp'.message = Head(logEvents).Message
             /\ logEvents' = Tail(logEvents)
             /\ delivered' = Append(delivered, lastOp'.message)
       /\ \A i \in 1..(Len(delivered') - 1) : delivered'[i] < delivered'[i + 1]
       /\ \A i \in 1..(Len(logEvents') - 1) :
             logEvents'[i].Message < logEvents'[i + 1].Message
       /\ delivered' # <<>> /\ logEvents' # <<>>
             => delivered'[Len(delivered')] < logEvents'[1].Message]_vars

\* C24 witness: the channel is full again after the consumer received the two
\* oldest events; one LogEvent call found it full and its event was dropped,
\* and so was the last one.
C24_Witness ==
    /\ lastOp.op = "LogEvent"
    /\ lastOp.dropped
    /\ Len(logEvents) = LogCapacity
    /\ delivered = <<1, 2>>
    /\ published = LogCapacity + 3
    /\ logEvents[LogCapacity].Message = LogCapacity + 2

(***************************************************************************)
(* The methods statement by statement.  A step is the statement at pc with *)
(* the statements after it up to the next one that can wait (a Lock, an    *)
(* RLock, a call of the session engine) or that writes a field a reader    *)
(* can see; an Unlock belongs to the step before it.  A goroutine waits at *)
(* a Lock or RLock until the mutex lets it in.                             *)
(***************************************************************************)
dataVars == <<coreVars, ospfVars, mplsVars, logVars>>

\* the history of a step that returns nothing to a caller
Step == [op |-> "step"]

\* cfg.Auto.Enabled (default true)
AutoEnabled == TRUE

\* GetPeer lines 93 / GetAllPeers line 114 with no peer.mu.RLock
PeerReadable_NoLock(g, address) == TRUE

\* GetPeer line 93 / GetAllPeers line 114: peer.mu.RLock()
PeerReadable(g, address) == CanRLock(g, address)

\* WithdrawAllPrefixes without the RUnlock of line 184
AfterLookup_Keep(m, g) == m

\* WithdrawAllPrefixes line 184: m.mu.RUnlock()
AfterLookup(m, g) == RUnlockOf(m, "m.mu", g)

\* updatePeerStates line 147: the statement after one pass of the loop
NextPeer(todo) == IF todo = <<>> THEN "updatePeerStates:179" ELSE "updatePeerStates:153"

\* goroutine g goes to statement label with the locals l
Goto(g, label, l) ==
    /\ pc' = [pc EXCEPT ![g] = label]
    /\ loc' = [loc EXCEPT ![g] = l]

\* the goroutine that serves calls is done with one
Done(g) == Goto(g, "idle", NoLocals)

\* monitorPeers lines 134-136: the case <-m.ctx.Done()
monitorPeers_135(g) ==
    /\ pc[g] = "monitorPeers:134"
    /\ cancelled
    /\ Goto(g, "stopped", NoLocals)
    /\ lastOp' = Step
    /\ UNCHANGED <<dataVars, mu, cancelled>>

\* monitorPeers lines 134, 137-138: the case <-ticker.C
monitorPeers_137(g) ==
    /\ pc[g] = "monitorPeers:134"
    /\ Goto(g, "updatePeerStates:144", [NoLocals EXCEPT !.op = "updatePeerStates"])
    /\ lastOp' = Step
    /\ UNCHANGED <<dataVars, mu, cancelled>>

\* updatePeerStates lines 144-147: m.mu.RLock() and the start of the range
updatePeerStates_144(g) ==
    /\ pc[g] = "updatePeerStates:144"
    /\ CanRLock(g, "m.mu")
    /\ mu' = RLockOf(mu, "m.mu", g)
    /\ \E order \in Orders(DOMAIN peers) :
          Goto(g, NextPeer(order), [loc[g] EXCEPT !.todo = order])
    /\ lastOp' = Step
    /\ UNCHANGED <<dataVars, cancelled>>

\* updatePeerStates lines 154-156 with return in the place of continue
AfterFailedPoll_Return(todo) == "updatePeerStates:179"

\* updatePeerStates lines 154-156: if err != nil { continue }
AfterFailedPoll(todo) == NextPeer(todo)

\* updatePeerStates lines 149-156: server.GetPeer returns resp
updatePeerStates_153(g, resp) ==
    /\ pc[g] = "updatePeerStates:153"
    /\ IF resp.err
       THEN Goto(g, AfterFailedPoll(Tail(loc[g].todo)), [loc[g] EXCEPT !.todo = Tail(@)])
       ELSE Goto(g, "updatePeerStates:158", [loc[g] EXCEPT !.resp = resp])
    /\ lastOp' = [op |-> "polled", g |-> g, address |-> Head(loc[g].todo),
                  err |-> resp.err]
    /\ UNCHANGED <<dataVars, mu, cancelled>>

\* updatePeerStates lines 158-159: peer.mu.Lock(), wasEstablished
updatePeerStates_158(g) ==
    LET address == Head(loc[g].todo)
    IN  /\ pc[g] = "updatePeerStates:158"
        /\ CanLock(address)
        /\ mu' = LockOf(mu, address, g)
        /\ Goto(g, "updatePeerStates:161", [loc[g] EXCEPT !.was = peers[address].Established])
        /\ lastOp' = Step
        /\ UNCHANGED <<dataVars, cancelled>>

\* updatePeerStates line 161 or 166: peer.State
updatePeerStates_161(g) ==
    LET address == Head(loc[g].todo)
        resp    == loc[g].resp
    IN  /\ pc[g] = "updatePeerStates:161"
        /\ peers' = [peers EXCEPT ![address].State =
                        IF resp.SessionState = "ESTABLISHED" THEN "Established"
                        ELSE resp.SessionState]
        /\ Goto(g, "updatePeerStates:162", loc[g])
        /\ lastOp' = Step
        /\ UNCHANGED <<now, heap, events, got, recorded, flapHist, rib, held,
                       ospfVars, mplsVars, logVars, mu, cancelled>>

\* updatePeerStates lines 162-164 or 167: peer.Established and peer.PrefixCount
updatePeerStates_162(g) ==
    LET address == Head(loc[g].todo)
        resp    == loc[g].resp
    IN  /\ pc[g] = "updatePeerStates:162"
        /\ peers' = IF resp.SessionState = "ESTABLISHED"
                    THEN [peers EXCEPT ![address].Established = TRUE,
                                       ![address].PrefixCount = resp.Advertised]
                    ELSE [peers EXCEPT ![address].Established = FALSE]
        /\ Goto(g, "updatePeerStates:172", loc[g])
        /\ lastOp' = Step
        /\ UNCHANGED <<now, heap, events, got, recorded, flapHist, rib, held,
                       ospfVars, mplsVars, logVars, mu, cancelled>>

\* updatePeerStates lines 172-173, and 177 if no flap: peer.FlapCount++
updatePeerStates_172(g) ==
    LET address == Head(loc[g].todo)
    IN  /\ pc[g] = "updatePeerStates:172"
        /\ IF loc[g].was /\ ~peers[address].Established
           THEN /\ peers' = [peers EXCEPT ![address].FlapCount = @ + 1]
                /\ Goto(g, "updatePeerStates:174", loc[g])
                /\ mu' = mu
           ELSE /\ peers' = peers
                /\ mu' = UnlockOf(mu, address, g)
                /\ Goto(g, NextPeer(Tail(loc[g].todo)),
                        [loc[g] EXCEPT !.todo = Tail(@), !.resp = "none", !.was = FALSE])
        /\ lastOp' = Step
        /\ UNCHANGED <<now, heap, events, got, recorded, flapHist, rib, held,
                       ospfVars, mplsVars, logVars, cancelled>>

\* updatePeerStates lines 174-177: peer.LastFlapTime, peer.mu.Unlock()
updatePeerStates_174(g) ==
    LET address == Head(loc[g].todo)
    IN  /\ pc[g] = "updatePeerStates:174"
        /\ peers' = [peers EXCEPT ![address].LastFlapTime = now]
        /\ flapHist' = [flapHist EXCEPT ![address] =
              [total |-> @.total + 1, first |-> IF @.total = 0 THEN now ELSE @.first]]
        /\ mu' = UnlockOf(mu, address, g)
        /\ Goto(g, NextPeer(Tail(loc[g].todo)),
                [loc[g] EXCEPT !.todo = Tail(@), !.resp = "none", !.was = FALSE])
        /\ lastOp' = Step
        /\ UNCHANGED <<now, heap, events, got, recorded, rib, held,
                       ospfVars, mplsVars, logVars, cancelled>>

\* updatePeerStates line 179: the deferred m.mu.RUnlock(); back in monitorPeers
updatePeerStates_179(g) ==
    /\ pc[g] = "updatePeerStates:179"
    /\ mu' = RUnlockOf(mu, "m.mu", g)
    /\ Goto(g, "monitorPeers:134", NoLocals)
    /\ lastOp' = Step
    /\ UNCHANGED <<dataVars, cancelled>>

\* a call of Monitor.GetPeer arrives
CallGetPeer(g, address) ==
    /\ pc[g] = "idle"
    /\ Goto(g, "GetPeer:85", [NoLocals EXCEPT !.op = "GetPeer", !.address = address])
    /\ lastOp' = Step
    /\ UNCHANGED <<dataVars, mu, cancelled>>

\* GetPeer lines 85-91: m.mu.RLock(), the lookup
GetPeer_85(g) ==
    /\ pc[g] = "GetPeer:85"
    /\ CanRLock(g, "m.mu")
    /\ IF loc[g].address \in DOMAIN peers
       THEN /\ mu' = RLockOf(mu, "m.mu", g)
            /\ Goto(g, "GetPeer:93", loc[g])
            /\ lastOp' = Step
       ELSE /\ mu' = mu
            /\ Done(g)
            /\ lastOp' = [op |-> "returned", call |-> "GetPeer", g |-> g, ret |-> <<>>]
    /\ UNCHANGED <<dataVars, cancelled>>

\* GetPeer lines 93-105: peer.mu.RLock(), the copy, the deferred RUnlocks
GetPeer_93(g) ==
    /\ pc[g] = "GetPeer:93"
    /\ PeerReadable(g, loc[g].address)
    /\ mu' = RUnlockOf(mu, "m.mu", g)
    /\ Done(g)
    /\ lastOp' = [op |-> "returned", call |-> "GetPeer", g |-> g,
                  ret |-> <<CopyPeer(peers[loc[g].address])>>]
    /\ UNCHANGED <<dataVars, cancelled>>

\* a call of Monitor.GetAllPeers arrives
CallGetAllPeers(g) ==
    /\ pc[g] = "idle"
    /\ Goto(g, "GetAllPeers:109", [NoLocals EXCEPT !.op = "GetAllPeers"])
    /\ lastOp' = Step
    /\ UNCHANGED <<dataVars, mu, cancelled>>

\* GetAllPeers returns ret: to checkAndRemediate (lines 162-164) or to the
\* caller of the API
GetAllPeersReturns(g, ret) ==
    /\ IF loc[g].op = "checkAndRemediate"
       THEN Goto(g, "checkAndRemediate:166", [loc[g] EXCEPT !.todo = ret, !.ret = <<>>, !.t = now])
       ELSE Done(g)
    /\ lastOp' = [op |-> "returned", call |-> "GetAllPeers", g |-> g, ret |-> ret]

\* GetAllPeers lines 109-113: m.mu.RLock() and the start of the range
GetAllPeers_109(g) ==
    /\ pc[g] = "GetAllPeers:109"
    /\ CanRLock(g, "m.mu")
    /\ \E order \in Orders(DOMAIN peers) :
          IF order = <<>>
          THEN /\ mu' = mu
               /\ GetAllPeersReturns(g, <<>>)
          ELSE /\ mu' = RLockOf(mu, "m.mu", g)
               /\ Goto(g, "GetAllPeers:114", [loc[g] EXCEPT !.todo = order])
               /\ lastOp' = Step
    /\ UNCHANGED <<dataVars, cancelled>>

\* GetAllPeers lines 114-126: peer.mu.RLock(), the copy, peer.mu.RUnlock(), and
\* after the last peer the deferred m.mu.RUnlock()
GetAllPeers_114(g) ==
    LET address == Head(loc[g].todo)
        ret     == Append(loc[g].ret, CopyPeer(peers[address]))
    IN  /\ pc[g] = "GetAllPeers:114"
        /\ PeerReadable(g, address)
        /\ IF Tail(loc[g].todo) = <<>>
           THEN /\ mu' = RUnlockOf(mu, "m.mu", g)
                /\ GetAllPeersReturns(g, ret)
           ELSE /\ mu' = mu
                /\ Goto(g, "GetAllPeers:114", [loc[g] EXCEPT !.todo = Tail(@), !.ret = ret])
                /\ lastOp' = Step
        /\ UNCHANGED <<dataVars, cancelled>>

\* a call of Monitor.WithdrawAllPrefixes arrives
CallWithdrawAllPrefixes(g, address) ==
    /\ pc[g] = "idle"
    /\ Goto(g, "WithdrawAllPrefixes:182",
            [NoLocals EXCEPT !.op = "WithdrawAllPrefixes", !.address = address])
    /\ lastOp' = Step
    /\ UNCHANGED <<dataVars, mu, cancelled>>

\* RemediateManual lines 248-266 after the withdrawal: the events it records
ManualEvents(l, err) ==
    IF err # "nil" THEN <<ManualEvent(l.address, l.arg.reason, FALSE, l.t)>>
    ELSE (IF l.arg.prefix # "" THEN <<RPKIEvent(l.arg.prefix, l.t)>> ELSE <<>>)
         \o <<ManualEvent(l.address, l.arg.reason, TRUE, l.t)>>

\* WithdrawAllPrefixes returns err: to remediateFlap (lines 192-199), to
\* RemediateManual (lines 249-253) or to the caller of the API
WithdrawReturns(g, err) ==
    /\ CASE loc[g].op = "checkAndRemediate" ->
              Goto(g, "recordEvent:270",
                   [loc[g] EXCEPT !.evs = <<FlapEvent(loc[g].address, err, loc[g].t)>>,
                                  !.stale = FALSE])
         [] loc[g].op = "RemediateManual" ->
              Goto(g, "recordEvent:270",
                   [loc[g] EXCEPT !.evs = ManualEvents(loc[g], err), !.stale = FALSE,
                                  !.resp = err])
         [] OTHER -> Done(g)
    /\ lastOp' = [op |-> "returned", call |-> "WithdrawAllPrefixes", g |-> g,
                  address |-> loc[g].address, err |-> err]

\* WithdrawAllPrefixes lines 182-188: m.mu.RLock(), the lookup, m.mu.RUnlock()
WithdrawAllPrefixes_182(g) ==
    /\ pc[g] = "WithdrawAllPrefixes:182"
    /\ CanRLock(g, "m.mu")
    /\ mu' = AfterLookup(RLockOf(mu, "m.mu", g), g)
    /\ IF loc[g].address \in DOMAIN peers
       THEN /\ Goto(g, "WithdrawAllPrefixes:199", loc[g])
            /\ lastOp' = Step
       ELSE WithdrawReturns(g, "not found")
    /\ UNCHANGED <<dataVars, cancelled>>

\* WithdrawAllPrefixes lines 190-221: server.ListPath, and server.DeletePath for
\* every path of the stream
WithdrawAllPrefixes_199(g, listErr, deleteErrs) ==
    /\ pc[g] = "WithdrawAllPrefixes:199"
    /\ IF listErr
       THEN /\ rib' = rib
            /\ WithdrawReturns(g, "failed to list paths")
       ELSE /\ rib' = rib \cap deleteErrs
            /\ Goto(g, "WithdrawAllPrefixes:223", loc[g])
            /\ lastOp' = Step
    /\ UNCHANGED <<peers, now, heap, events, got, recorded, flapHist, held,
                   ospfVars, mplsVars, logVars, mu, cancelled>>

\* WithdrawAllPrefixes lines 223-227: peer.mu.Lock(), FlapCount = 0,
\* peer.mu.Unlock().  peer is the PeerState found in line 183; if AddPeer has
\* put another one in its place since, the write does not reach the registry.
WithdrawAllPrefixes_223(g) ==
    /\ pc[g] = "WithdrawAllPrefixes:223"
    /\ loc[g].stale \/ CanLock(loc[g].address)
    /\ peers' = IF loc[g].stale THEN peers
                ELSE [peers EXCEPT ![loc[g].address].FlapCount = 0]
    /\ WithdrawReturns(g, "nil")
    /\ UNCHANGED <<now, heap, events, got, recorded, flapHist, rib, held,
                   ospfVars, mplsVars, logVars, mu, cancelled>>

\* recordEvent line 270: e.mu.Lock()
recordEvent_270(g) ==
    /\ pc[g] = "recordEvent:270"
    /\ CanLock("e.mu")
    /\ mu' = LockOf(mu, "e.mu", g)
    /\ Goto(g, "recordEvent:272", loc[g])
    /\ lastOp' = Step
    /\ UNCHANGED <<dataVars, cancelled>>

\* recordEvent lines 272-278: the append, the trim, the deferred e.mu.Unlock();
\* then the next recordEvent of the caller, the next pass of the loop of
\* checkAndRemediate, or the return of RemediateManual
recordEvent_272(g) ==
    /\ pc[g] = "recordEvent:272"
    /\ Record(<<Head(loc[g].evs)>>)
    /\ mu' = UnlockOf(mu, "e.mu", g)
    /\ IF Tail(loc[g].evs) # <<>>
       THEN /\ Goto(g, "recordEvent:270", [loc[g] EXCEPT !.evs = Tail(@)])
            /\ lastOp' = Step
       ELSE IF loc[g].op = "checkAndRemediate"
       THEN /\ Goto(g, "checkAndRemediate:166",
                    [loc[g] EXCEPT !.evs = <<>>, !.todo = Tail(@), !.address = ""])
            /\ lastOp' = Step
       ELSE /\ Done(g)
            /\ lastOp' = [op |-> "returned", call |-> "RemediateManual", g |-> g,
                          err |-> loc[g].resp]
    /\ UNCHANGED <<peers, now, flapHist, rib, held, ospfVars, mplsVars, logVars,
                   cancelled>>

\* Engine.Start lines 144-149: the test of cfg.Auto.Enabled
Start_144(g) ==
    /\ pc[g] = "Start:144"
    /\ Goto(g, IF AutoEnabled THEN "Start:152" ELSE "stopped", NoLocals)
    /\ lastOp' = Step
    /\ UNCHANGED <<dataVars, mu, cancelled>>

\* Engine.Start lines 152, 155-156: the case <-ticker.C.  The context of
\* Initialize line 372 is context.Background(), whose Done channel is nil:
\* the case of line 153 is never ready.
Start_155(g) ==
    /\ pc[g] = "Start:152"
    /\ Goto(g, "GetAllPeers:109", [NoLocals EXCEPT !.op = "checkAndRemediate"])
    /\ lastOp' = Step
    /\ UNCHANGED <<dataVars, mu, cancelled>>

\* checkAndRemediate lines 166-179: one pass of the loop up to remediateFlap,
\* or the end of the cycle
checkAndRemediate_166(g) ==
    /\ pc[g] = "checkAndRemediate:166"
    /\ IF loc[g].todo = <<>>
       THEN Goto(g, "Start:152", NoLocals)
       ELSE IF ShouldRemediate(Head(loc[g].todo), loc[g].t)
       THEN Goto(g, "WithdrawAllPrefixes:182",
                 [loc[g] EXCEPT !.address = Head(loc[g].todo).Address])
       ELSE Goto(g, "checkAndRemediate:166", [loc[g] EXCEPT !.todo = Tail(@)])
    /\ lastOp' = Step
    /\ UNCHANGED <<dataVars, mu, cancelled>>

\* a call of Engine.RemediateManual arrives (lines 239-248)
CallRemediateManual(g, peer, prefix, reason) ==
    LET l == [NoLocals EXCEPT !.op = "RemediateManual", !.address = peer,
                              !.arg = [prefix |-> prefix, reason |-> reason],
                              !.t = now, !.resp = "nil"]
    IN  /\ pc[g] = "idle"
        /\ IF peer # ""
           THEN Goto(g, "WithdrawAllPrefixes:182", l)
           ELSE Goto(g, "recordEvent:270", [l EXCEPT !.evs = ManualEvents(l, "nil")])
        /\ lastOp' = Step
        /\ UNCHANGED <<dataVars, mu, cancelled>>

\* a call of Monitor.AddPeer arrives
CallAddPeer(g, address, asn) ==
    /\ pc[g] = "idle"
    /\ Goto(g, "AddPeer:53", [NoLocals EXCEPT !.op = "AddPeer", !.address = address,
                                               !.arg = asn])
    /\ lastOp' = Step
    /\ UNCHANGED <<dataVars, mu, cancelled>>

\* goroutine h has read the *PeerState of address from the map and releases
\* the registry lock before it uses it
HasPointer(h, address) ==
    /\ pc[h] \in {"WithdrawAllPrefixes:199", "WithdrawAllPrefixes:223"}
    /\ loc[h].address = address

\* AddPeer lines 53-62: m.mu.Lock(), the new PeerState in the map
AddPeer_53(g) ==
    /\ pc[g] = "AddPeer:53"
    /\ CanLock("m.mu")
    /\ mu' = LockOf(mu, "m.mu", g)
    /\ peers' = AddPeerMap(peers, loc[g].address, loc[g].arg)
    /\ pc' = [pc EXCEPT ![g] = "AddPeer:75"]
    /\ loc' = [h \in Goroutines |->
                 IF HasPointer(h, loc[g].address) THEN [loc[h] EXCEPT !.stale = TRUE]
                 ELSE loc[h]]
    /\ lastOp' = Step
    /\ UNCHANGED <<now, heap, events, got, recorded, flapHist, rib, held,
                   ospfVars, mplsVars, logVars, cancelled>>

\* AddPeer lines 64-82: server.AddPeer returns err, the deferred m.mu.Unlock()
AddPeer_75(g, err) ==
    /\ pc[g] = "AddPeer:75"
    /\ mu' = UnlockOf(mu, "m.mu", g)
    /\ lastOp' = [op |-> "returned", call |-> "AddPeer", g |-> g,
                  address |-> loc[g].address, err |-> err]
    /\ Done(g)
    /\ UNCHANGED <<dataVars, cancelled>>

\* Monitor.Close (lines 230-233)
MonitorClose(g) ==
    /\ pc[g] = "idle"
    /\ cancelled' = TRUE
    /\ lastOp' = [op |-> "Close", g |-> g]
    /\ UNCHANGED <<dataVars, pc, loc, mu>>

\* a call of Engine.GetEvents arrives
CallGetEvents(g, limit) ==
    /\ pc[g] = "idle"
    /\ Goto(g, "GetEvents:281", [NoLocals EXCEPT !.op = "GetEvents", !.arg = limit])
    /\ lastOp' = Step
    /\ UNCHANGED <<dataVars, mu, cancelled>>

\* GetEvents line 281: e.mu.RLock()
GetEvents_281(g) ==
    /\ pc[g] = "GetEvents:281"
    /\ CanRLock(g, "e.mu")
    /\ mu' = RLockOf(mu, "e.mu", g)
    /\ Goto(g, "GetEvents:284", loc[g])
    /\ lastOp' = Step
    /\ UNCHANGED <<dataVars, cancelled>>

\* GetEvents lines 284-291: the copy, the deferred e.mu.RUnlock().  The caller
\* uses the copy at once and keeps no reference to it.
GetEvents_284(g) ==
    LET r == GetEventsOf(heap, events, loc[g].arg)
    IN  /\ pc[g] = "GetEvents:284"
        /\ mu' = RUnlockOf(mu, "e.mu", g)
        /\ Done(g)
        /\ lastOp' = [op |-> "returned", call |-> "GetEvents", g |-> g,
                      ret |-> View(r.heap, r.slice)]
        /\ UNCHANGED <<dataVars, cancelled>>

\* the capture delivers a packet to the packet loop (part_003 lines 318-326)
ReceivePacket(g, pkt) ==
    /\ pc[g] = "idle"
    /\ Goto(g, "processOSPFPacket:332", [NoLocals EXCEPT !.op = "processOSPFPacket",
                                                         !.arg = pkt])
    /\ lastOp' = Step
    /\ UNCHANGED <<dataVars, mu, cancelled>>

\* processOSPFPacket line 332: p.topology.mu.Lock()
processOSPFPacket_332(g) ==
    /\ pc[g] = "processOSPFPacket:332"
    /\ CanLock("topology.mu")
    /\ mu' = LockOf(mu, "topology.mu", g)
    /\ Goto(g, "processOSPFPacket:335", loc[g])
    /\ lastOp' = Step
    /\ UNCHANGED <<dataVars, cancelled>>

\* processOSPFPacket lines 335-402: the switch, the deferred Unlock
processOSPFPacket_335(g) ==
    LET r == ProcessOf(linkHeap, topology, loc[g].arg)
    IN  /\ pc[g] = "processOSPFPacket:335"
        /\ topology' = r.routers
        /\ linkHeap' = Collect(r.heap, LiveLinks(r.routers, snap))
        /\ mu' = UnlockOf(mu, "topology.mu", g)
        /\ Done(g)
        /\ lastOp' = [op |-> "returned", call |-> "processOSPFPacket", g |-> g]
        /\ UNCHANGED <<coreVars, snap, mplsVars, logVars, cancelled>>

\* a call of Parser.GetTopology arrives
CallGetTopology(g) ==
    /\ pc[g] = "idle"
    /\ Goto(g, "GetTopology:405", [NoLocals EXCEPT !.op = "GetTopology"])
    /\ lastOp' = Step
    /\ UNCHANGED <<dataVars, mu, cancelled>>

\* GetTopology line 405: p.topology.mu.RLock()
GetTopology_405(g) ==
    /\ pc[g] = "GetTopology:405"
    /\ CanRLock(g, "topology.mu")
    /\ mu' = RLockOf(mu, "topology.mu", g)
    /\ Goto(g, "GetTopology:409", loc[g])
    /\ lastOp' = Step
    /\ UNCHANGED <<dataVars, cancelled>>

\* GetTopology lines 409-417: the copy, the deferred RUnlock.  The caller uses
\* the copy at once and keeps no reference to it.
GetTopology_409(g) ==
    /\ pc[g] = "GetTopology:409"
    /\ \E order \in Orders(DOMAIN topology) :
          LET r == GetTopologyOf(linkHeap, topology, order)
          IN  lastOp' = [op |-> "returned", call |-> "GetTopology", g |-> g,
                         ret |-> Links(r.heap, r.routers)]
    /\ mu' = RUnlockOf(mu, "topology.mu", g)
    /\ Done(g)
    /\ UNCHANGED <<dataVars, cancelled>>

(***************************************************************************)
(* The lock model: the refresh goroutine, the evaluation goroutine and one *)
(* goroutine that serves calls (the handlers of the UI server, the CLI     *)
(* commands and the live capture, which feeds packets to the parser).      *)
(* One peer is tracked; it has flapped more often than the threshold.      *)
(* The session engine lists and deletes the paths without error: the       *)
(* failing return of WithdrawAllPrefixes (line 201) holds no lock and      *)
(* takes none.                                                             *)
(***************************************************************************)
LockAddrs == {"10.0.0.2"}

\* the Link State Update of the capture file, which Initialize has parsed
\* (ParsePCAP) and which the live capture delivers again
LockPackets == {pkt \in SnapPackets : pkt.LSAs = <<2>>}

InitLocks ==
    /\ peers = [a \in LockAddrs |-> DownPeer(a, FlapThreshold + 1, 100)]
    /\ now = 100
    /\ heap = [i \in {} |-> <<>>]
    /\ events = EmptySlice
    /\ got = EmptySlice
    /\ recorded = <<>>
    /\ flapHist = [a \in Addrs |->
                     IF a \in LockAddrs THEN [total |-> FlapThreshold + 1, first |-> 100]
                     ELSE [total |-> 0, first |-> 0]]
    /\ lastOp = [op |-> "init"]
    /\ rib = {}
    /\ held = <<>>
    /\ LET parsed == ProcessOf([i \in {} |-> <<>>], [r \in {} |-> 0],
                               CHOOSE pkt \in LockPackets : TRUE)
       IN  /\ topology = parsed.routers
           /\ linkHeap = parsed.heap
    /\ snap = [r \in {} |-> 0]
    /\ corruptionEvents = 0
    /\ vcall = [c \in Callers |-> Idle]
    /\ failures = [k \in ErrorKinds |-> 0]
    /\ InitLogger
    /\ InitGoroutines

\* the answers of server.GetPeer: an error, a session that is down, one that is up
PollAnswers ==
    {[err |-> TRUE, SessionState |-> "UNKNOWN", Advertised |-> 0]} \cup EngineResponses

\* the steps of Monitor.updatePeerStates after the select
RefreshSteps(g) ==
    \/ updatePeerStates_144(g)
    \/ \E resp \in PollAnswers : updatePeerStates_153(g, resp)
    \/ updatePeerStates_158(g)
    \/ updatePeerStates_161(g)
    \/ updatePeerStates_162(g)
    \/ updatePeerStates_172(g)
    \/ updatePeerStates_174(g)
    \/ updatePeerStates_179(g)

\* the steps of the registry reads
ReadSteps(g) ==
    \/ GetPeer_85(g)
    \/ GetPeer_93(g)
    \/ GetAllPeers_109(g)
    \/ GetAllPeers_114(g)

\* the steps of a withdrawal and of recordEvent
RemediationSteps(g) ==
    \/ WithdrawAllPrefixes_182(g)
    \/ \E listErr \in BOOLEAN : WithdrawAllPrefixes_199(g, listErr, {})
    \/ WithdrawAllPrefixes_223(g)
    \/ recordEvent_270(g)
    \/ recordEvent_272(g)

\* no refresh cycle starts once a peer has flapped n times more than at the start
LockFlapsBelow(n) ==
    \A a \in LockAddrs : flapHist[a].total < FlapThreshold + 1 + n

NextLocks ==
    \/ LockFlapsBelow(MaxLockFlaps) /\ monitorPeers_137("refresh")
    \/ RefreshSteps("refresh")
    \/ Start_144("eval")
    \/ Len(recorded) < MaxLockLedger /\ Start_155("eval")
    \/ checkAndRemediate_166("eval")
    \/ \E g \in {"eval", "api1"} : ReadSteps(g)
    \/ \E g \in {"eval", "api1"} :
          \/ WithdrawAllPrefixes_182(g)
          \/ WithdrawAllPrefixes_199(g, FALSE, {})
          \/ WithdrawAllPrefixes_223(g)
          \/ recordEvent_270(g)
          \/ recordEvent_272(g)
    \/ \E a \in LockAddrs : CallGetPeer("api1", a)
    \/ CallGetAllPeers("api1")
    \/ \E a \in LockAddrs, asn \in ASNs : CallAddPeer("api1", a, asn)
    \/ AddPeer_53("api1")
    \/ \E err \in BOOLEAN : AddPeer_75("api1", err)
    \/ \E a \in LockAddrs, reason \in Reasons :
          Len(recorded) < MaxLockLedger /\ CallRemediateManual("api1", a, "", reason)
    \/ \E limit \in {0} : CallGetEvents("api1", limit)
    \/ GetEvents_281("api1")
    \/ GetEvents_284("api1")
    \/ CallGetTopology("api1")
    \/ GetTopology_405("api1")
    \/ GetTopology_409("api1")
    \/ \E pkt \in LockPackets : ReceivePacket("api1", pkt)
    \/ processOSPFPacket_332("api1")
    \/ processOSPFPacket_335("api1")

SpecLocks == InitLocks /\ [][NextLocks]_vars

\* the statements at which a goroutine acquires the lock of a registry
RegistryLockStatements ==
    {"AddPeer:53", "GetPeer:85", "GetAllPeers:109", "updatePeerStates:144",
     "WithdrawAllPrefixes:182", "recordEvent:270", "GetEvents:281",
     "processOSPFPacket:332", "GetTopology:405"}

\* goroutine g is inside a method (not waiting for a tick or a call, not stopped)
Busy(g) == pc[g] \notin {"idle", "stopped", "monitorPeers:134", "Start:144", "Start:152"}

\* the steps goroutine g can take inside a method
StepsOf(g) ==
    \/ RefreshSteps(g)
    \/ ReadSteps(g)
    \/ RemediationSteps(g)
    \/ checkAndRemediate_166(g)
    \/ AddPeer_53(g)
    \/ \E err \in BOOLEAN : AddPeer_75(g, err)
    \/ GetEvents_281(g)
    \/ GetEvents_284(g)
    \/ GetTopology_405(g)
    \/ GetTopology_409(g)
    \/ processOSPFPacket_332(g)
    \/ processOSPFPacket_335(g)

\* C23: no goroutine holds the locks of two registries (peer table, ledger,
\* topology) at once; a goroutine that holds the lock of a PeerState is not at
\* a statement that acquires a registry lock; and the goroutines never all
\* wait for each other: whenever some goroutine is inside a method, one of
\* those inside a method can take its next step.
C23_OneRegistryLockNoDeadlock ==
    /\ \A g \in Goroutines : Cardinality(Held(g) \cap Registries) <= 1
    /\ \A g \in Goroutines :
          Held(g) \cap Addrs # {} => pc[g] \notin RegistryLockStatements
    /\ (\E g \in Goroutines : Busy(g))
          => \E g \in Goroutines : Busy(g) /\ ENABLED StepsOf(g)

\* C23 witness: the refresh goroutine holds the registry lock for reading and
\* the lock of a peer for writing; AddPeer waits for the registry lock, and
\* because a writer waits, GetAllPeers of the evaluation cycle waits too.
C23_Witness ==
    /\ mu["m.mu"].r = {"refresh"}
    /\ mu["10.0.0.2"].w = "refresh"
    /\ pc["api1"] = "AddPeer:53"
    /\ pc["eval"] = "GetAllPeers:109"
    /\ ~ENABLED StepsOf("eval")
    /\ ~ENABLED StepsOf("api1")
    /\ Len(recorded) = 1

\* the statements that call the session engine
EngineCalls == {"AddPeer:75", "updatePeerStates:153", "WithdrawAllPrefixes:199"}

\* C28 as stated: no goroutine is in a call of the session engine while it
\* holds the registry lock, so that whatever call of the session engine does
\* not return, a goroutine that wants the registry lock gets it.
C28_NoEngineCallUnderRegistryLock ==
    \A g \in Goroutines : pc[g] \in EngineCalls => "m.mu" \notin Held(g)

(***************************************************************************)
(* The read model: the refresh goroutine, a goroutine that reads the       *)
(* registry and a goroutine that withdraws and adds peers.  Two peers are  *)
(* tracked: one is established and has never flapped, one was just added.  *)
(***************************************************************************)
EstablishedPeer(address) ==
    [NewPeerState(address, 65001) EXCEPT !.State = "Established", !.Established = TRUE,
                                          !.PrefixCount = 1]

InitReads ==
    /\ peers = [a \in Addrs |->
                  IF a = "10.0.0.1" THEN EstablishedPeer(a) ELSE NewPeerState(a, 65001)]
    /\ now = 100
    /\ heap = [i \in {} |-> <<>>]
    /\ events = EmptySlice
    /\ got = EmptySlice
    /\ recorded = <<>>
    /\ flapHist = [a \in Addrs |-> [total |-> 0, first |-> 0]]
    /\ lastOp = [op |-> "init"]
    /\ InitRest

\* no refresh cycle starts once the peers have flapped n times
ReadFlapsBelow(n) == \A a \in Addrs : flapHist[a].total < n

NextReads ==
    \/ ReadFlapsBelow(MaxReadFlaps) /\ monitorPeers_137("refresh")
    \/ RefreshSteps("refresh")
    \/ \E a \in Addrs : CallGetPeer("api1", a)
    \/ CallGetAllPeers("api1")
    \/ ReadSteps("api1")
    \/ \E a \in Addrs : CallWithdrawAllPrefixes("api2", a)
    \/ WithdrawAllPrefixes_182("api2")
    \/ \E listErr \in BOOLEAN : WithdrawAllPrefixes_199("api2", listErr, {})
    \/ WithdrawAllPrefixes_223("api2")
    \/ \E a \in Addrs, asn \in ASNs : CallAddPeer("api2", a, asn)
    \/ AddPeer_53("api2")
    \/ \E err \in BOOLEAN : AddPeer_75("api2", err)

SpecReads == InitReads /\ [][NextReads]_vars

\* the copy of a PeerState is whole
Whole(peer) ==
    /\ peer.Established <=> peer.State = "Established"
    /\ peer.FlapCount > 0 => peer.LastFlapTime # 0

\* C29: every PeerState that GetPeer or GetAllPeers returns, whatever refresh
\* cycle or withdrawal runs beside the read, has Established true exactly
\* when its State is "Established", and a FlapCount above zero only with a
\* LastFlapTime that is set.
C29_NoTornRead ==
    (lastOp.op = "returned" /\ lastOp.call \in {"GetPeer", "GetAllPeers"})
       => \A i \in 1..Len(lastOp.ret) : Whole(lastOp.ret[i])

\* C29 witness: GetAllPeers returns while the refresh goroutine is between the
\* write of State and the write of Established of the other peer, whose
\* registry entry is not whole at that moment; the copy of the peer that has
\* flapped carries the flap count and the time.
C29_Witness ==
    /\ lastOp.op = "returned"
    /\ lastOp.call = "GetAllPeers"
    /\ Len(lastOp.ret) = 2
    /\ pc["refresh"] = "updatePeerStates:162"
    /\ \E a \in Addrs : ~Whole(peers[a]) /\ mu[a].w = "refresh"
    /\ \E i \in 1..2 : lastOp.ret[i].FlapCount > 0 /\ lastOp.ret[i].LastFlapTime = now

\* the step is one of the refresh goroutine
RefreshStepped == pc'["refresh"] # pc["refresh"] \/ loc'["refresh"] # loc["refresh"]

\* C22: a failed query of the session engine leaves the registry as it is and
\* goes on with the next peer of the cycle.  A cycle starts with every
\* tracked peer to poll, a peer leaves the list only when its query failed or
\* after its entry was written from the answer, the cycle ends only when no
\* peer is left, and the goroutine is then back at the select, where the next
\* tick starts another cycle.
C22_FailedPollIsSkipped ==
    [][RefreshStepped =>
         LET todo  == loc["refresh"].todo
             todo2 == loc'["refresh"].todo
             at    == pc["refresh"]
             to    == pc'["refresh"]
         IN  /\ at = "updatePeerStates:144" => Range(todo2) = DOMAIN peers /\ Len(todo2) = Cardinality(DOMAIN peers)
             /\ (lastOp'.op = "polled" /\ lastOp'.err)
                   => /\ peers' = peers
                      /\ todo2 = Tail(todo)
                      /\ to = IF todo2 = <<>> THEN "updatePeerStates:179"
                              ELSE "updatePeerStates:153"
             /\ at \in {"updatePeerStates:153", "updatePeerStates:158", "updatePeerStates:161",
                        "updatePeerStates:162", "updatePeerStates:172", "updatePeerStates:174"}
                   => /\ todo # <<>>
                      /\ todo2 \in {todo, Tail(todo)}
                      /\ (todo2 # todo /\ ~(lastOp'.op = "polled"))
                            => peers'[Head(todo)].Established
                                  = (loc["refresh"].resp.SessionState = "ESTABLISHED")
             /\ to = "updatePeerStates:179" => todo2 = <<>>
             /\ at = "updatePeerStates:179" => to = "monitorPeers:134"
    ]_vars

\* C22 witness: the query for the first peer of the cycle has failed, the
\* registry is as it was, and the other peer is the next to be polled.
C22_Witness ==
    /\ lastOp.op = "polled"
    /\ lastOp.err
    /\ pc["refresh"] = "updatePeerStates:153"
    /\ Len(loc["refresh"].todo) = 1
    /\ lastOp.address \notin Range(loc["refresh"].todo)
    /\ peers["10.0.0.1"] = EstablishedPeer("10.0.0.1")

(***************************************************************************)
(* The shutdown model: the refresh goroutine, the evaluation goroutine and *)
(* the main goroutine, which calls Monitor.Close, the one cancellation the *)
(* program has.  The Go scheduler runs every goroutine that can run, and a *)
(* select with several ready cases picks each of them again and again.     *)
(***************************************************************************)
NextShutdown ==
    \/ LockFlapsBelow(MaxLockFlaps) /\ monitorPeers_137("refresh")
    \/ monitorPeers_135("refresh")
    \/ RefreshSteps("refresh")
    \/ Start_144("eval")
    \/ Len(recorded) < MaxLockLedger /\ Start_155("eval")
    \/ checkAndRemediate_166("eval")
    \/ GetAllPeers_109("eval")
    \/ GetAllPeers_114("eval")
    \/ RemediationSteps("eval")
    \/ MonitorClose("api1")

SpecShutdown == InitLocks /\ [][NextShutdown]_vars

FairShutdown ==
    /\ SpecShutdown
    /\ WF_vars(RefreshSteps("refresh"))
    /\ SF_vars(monitorPeers_135("refresh"))
    /\ WF_vars(Start_144("eval") \/ checkAndRemediate_166("eval")
                 \/ GetAllPeers_109("eval") \/ GetAllPeers_114("eval")
                 \/ RemediationSteps("eval"))

\* goroutine g runs a periodic task and is between two cycles, at its select
AtSelect(g) == pc[g] \in {"monitorPeers:134", "Start:152"}

PeriodicTasks == {"refresh", "eval"}

\* goroutine g is inside updatePeerStates or checkAndRemediate
InCycle(g) == ~AtSelect(g) /\ pc[g] \notin {"Start:144", "stopped"}

\* C25 as stated: once the context is cancelled, no periodic task leaves its
\* select for another cycle, a task inside a cycle is not stopped before the
\* cycle is over, and both tasks eventually stop.
C25_TasksStopAfterShutdown ==
    /\ [][\A g \in PeriodicTasks :
            /\ (cancelled /\ AtSelect(g)) => pc'[g] \in {pc[g], "stopped"}
            /\ InCycle(g) => pc'[g] # "stopped"]_vars
    /\ cancelled ~> (\A g \in PeriodicTasks : pc[g] = "stopped")

\* C31: a WithdrawAllPrefixes(address) that returns nil leaves the registry
\* with the same addresses; the entry of address keeps its State, Established,
\* PrefixCount, LastFlapTime, Address and ASN and has FlapCount 0; the entry
\* of every other address is as it was.
C31_WithdrawTouchesOnlyFlapCount ==
    [][(lastOp'.op = "WithdrawAllPrefixes" /\ lastOp'.err = "nil") =>
          /\ DOMAIN peers' = DOMAIN peers
          /\ \A a \in DOMAIN peers :
                IF a = lastOp'.address
                THEN /\ peers'[a].State = peers[a].State
                     /\ peers'[a].Established = peers[a].Established
                     /\ peers'[a].PrefixCount = peers[a].PrefixCount
                     /\ peers'[a].LastFlapTime = peers[a].LastFlapTime
                     /\ peers'[a].Address = peers[a].Address
                     /\ peers'[a].ASN = peers[a].ASN
                     /\ peers'[a].FlapCount = 0
                ELSE peers'[a] = peers[a]]_vars

\* C31 witness: the withdrawal succeeded for a peer that had advertised a
\* prefix and then flapped; the entry still has the prefix count and the time
\* of the flap, and no flap count.  The other peer is tracked, and it has a
\* flap counted.
C31_Witness ==
    /\ lastOp.op = "WithdrawAllPrefixes"
    /\ lastOp.err = "nil"
    /\ peers[lastOp.address].FlapCount = 0
    /\ peers[lastOp.address].PrefixCount = 1
    /\ peers[lastOp.address].LastFlapTime # 0
    /\ ~peers[lastOp.address].Established
    /\ \E b \in DOMAIN peers : b # lastOp.address /\ peers[b].FlapCount = 1

====
